---- MODULE Spec2Model ----
(***************************************************************************)
(* Model of the Portal firmware handlers                                   *)
(*   firmware/src/handlers/bitcoin.rs  and  firmware/src/handlers/idle.rs  *)
(*                                                                         *)
(* Part 1: the Descriptor Verifier (DescriptorMeta for ExtendedDescriptor) *)
(* Part 2: the flow orchestrator (CurrentState and the request handlers)   *)
(* Part 3: the signature diff and its wire format                          *)
(***************************************************************************)
EXTENDS Integers, Sequences, FiniteSets, TLC

VARIABLES
    vpc,        \* verifier harness: "input" before the call, "done" after it
    vdesc,      \* verifier harness: the descriptor's extended keys, in for_any_key order
    vorigins,   \* verifier harness: key_origins, a map fingerprint -> (path, expected)
    vresult     \* verifier harness: what derive_from_psbt_key_origins returned

VARIABLES
    spc,        \* signature harness: the statement of the sign path reached
    sround,     \* signature harness: 1, or 2 when the signed PSBT is signed again
    sbefore,    \* signature harness: psbt.inputs as the request carried them
    ssigner,    \* signature harness: what wallet.sign adds, and to which inputs
    spsbt,      \* psbt.inputs (partial_sigs, tap_key_sig, tap_script_sigs)
    current_sigs,   \* the snapshot taken by CurrentSignatures::from_psbt
    sdiff,      \* the Vec<SigsDiff> of CurrentSignatures::diff
    sbytes,     \* sig_bytes
    spayload    \* the bytes of Reply::SignedPsbt

VARIABLES
    opc,        \* output harness: "input" before the call, "done" after it
    odesc,      \* output harness: the descriptor's extended keys
    ooutput,    \* output harness: the psbt::Output
    oresult     \* output harness: what derive_from_psbt_output returned

ovars == <<opc, odesc, ooutput, oresult>>
svars == <<spc, sround, sbefore, ssigner, spsbt, current_sigs, sdiff, sbytes, spayload>>
vvars == <<vpc, vdesc, vorigins, vresult, svars, ovars>>

(***************************************************************************)
(* Bounds                                                                  *)
(***************************************************************************)
\* wildcard child indices that key-origin claims use are 0..MaxIndex
MaxIndex == 5

(***************************************************************************)
(* bip32 values                                                            *)
(***************************************************************************)
\* bip32::ChildNumber::Normal { index }
Normal(index) == [h |-> FALSE, i |-> index]
\* bip32::ChildNumber::Hardened { index }
Hardened(index) == [h |-> TRUE, i |-> index]

\* Option<(Fingerprint, DerivationPath)> of DescriptorXKey::origin
NoOrigin == [some |-> FALSE]
Origin(f, p) == [some |-> TRUE, fp |-> f, path |-> p]

\* The parity of the point a derivation lands on: a fixed function of the
\* extended key and the path, so that a full key and its x-only form differ.
IsOdd(xkey, path) ==
    (Len(path) + (IF path = <<>> THEN 0 ELSE path[Len(path)].i)
               + (IF xkey = "A" THEN 0 ELSE 1)) % 2 = 1

\* bip32::Xpub::derive_pub: public derivation fails on a hardened step
derive_pub(xkey, path) ==
    IF \E n \in 1..Len(path) : path[n].h
    THEN [ok |-> FALSE]
    ELSE [ok |-> TRUE,
          public_key |-> [xk |-> xkey, p |-> path, odd |-> IsOdd(xkey, path)]]

\* XOnlyPublicKey::from(secp256k1::PublicKey): drops the parity
XOnlyFrom(pk) == [xk |-> pk.xk, p |-> pk.p]

\* bip32::Xpub::fingerprint of the extended key itself
xkey_fingerprint(xkey) == IF xkey = "A" THEN "fA" ELSE "fB"

(***************************************************************************)
(* Verification results                                                    *)
(***************************************************************************)
NotOurs == [tag |-> "None"]
Ours(index) == [tag |-> "Some", index |-> index]
\* an `expect`/`unwrap` that fails: the firmware panics
Panic == [tag |-> "Panic"]

(***************************************************************************)
(* Part 1: the Descriptor Verifier                                         *)
(***************************************************************************)
\* DescriptorXKey::matches(&(fingerprint, path), secp): the key's fingerprint
\* and its full path (origin path ++ derivation_path) against the claim's
\* path without its last step (that step replaces the wildcard)
matches(xpub, fingerprint, path) ==
    LET compare_fingerprint ==
            IF xpub.origin.some THEN xpub.origin.fp ELSE xkey_fingerprint(xpub.xkey)
        compare_path ==
            IF xpub.origin.some THEN xpub.origin.path \o xpub.derivation_path
            ELSE xpub.derivation_path
        path_excluding_wildcard ==
            IF xpub.wildcard # "None" /\ path # <<>>
            THEN SubSeq(path, 1, Len(path) - 1)
            ELSE path
    IN  IF compare_fingerprint = fingerprint /\ compare_path = path_excluding_wildcard
        THEN [some |-> TRUE, prefix |-> path_excluding_wildcard]
        ELSE [some |-> FALSE]

\* a verify_key that trusts the claim once the derivation succeeds
verify_key_NoCompare(xpub, path, expected) ==
    LET derived == derive_pub(xpub.xkey, path)
    IN  IF ~derived.ok THEN [panic |-> TRUE, eq |-> FALSE]
        ELSE [panic |-> FALSE, eq |-> TRUE]

\* the closure verify_key: deriving `xpub` with `path` yields `expected`;
\* the `expect` on derive_pub panics when the path has a hardened step
verify_key(xpub, path, expected) ==
    LET derived == derive_pub(xpub.xkey, path)
    IN  IF ~derived.ok THEN [panic |-> TRUE, eq |-> FALSE]
        ELSE [panic |-> FALSE,
              eq |-> \/ expected.kind = "FullKey" /\ expected.pk = derived.public_key
                     \/ expected.kind = "XOnly"
                        /\ expected.pk = XOnlyFrom(derived.public_key)]

\* a closure that gives the output up at the first key whose re-derived key
\* is not the expected one
key_closure_AbortOnMismatch(xpub, key_origins) ==
    LET root_fingerprint ==
            IF xpub.origin.some THEN xpub.origin.fp ELSE xkey_fingerprint(xpub.xkey)
    IN  IF root_fingerprint \notin DOMAIN key_origins THEN [tag |-> "Continue"]
        ELSE
        LET full_path == key_origins[root_fingerprint].path
            expected == key_origins[root_fingerprint].expected
            m == matches(xpub, root_fingerprint, full_path)
        IN  IF ~m.some THEN [tag |-> "Continue"]
            ELSE
            LET derive_path == SubSeq(full_path, Len(m.prefix) + 1, Len(full_path))
                v == verify_key(xpub, xpub.derivation_path \o derive_path, expected)
            IN  IF v.panic THEN Panic
                ELSE IF ~v.eq THEN NotOurs
                ELSE IF xpub.wildcard # "None" /\ Len(derive_path) = 1
                     THEN IF ~derive_path[1].h THEN Ours(derive_path[1].i)
                          ELSE [tag |-> "Continue"]
                ELSE IF xpub.wildcard = "None" /\ derive_path = <<>>
                     THEN Ours(0)
                ELSE [tag |-> "Continue"]

\* the closure given to for_any_key, for one key of the descriptor:
\* Ours(index) when it sets path_found and returns true, Continue when it
\* returns false
Continue == [tag |-> "Continue"]
key_closure(xpub, key_origins) ==
    LET root_fingerprint ==
            IF xpub.origin.some THEN xpub.origin.fp ELSE xkey_fingerprint(xpub.xkey)
    IN  IF root_fingerprint \notin DOMAIN key_origins THEN Continue
        ELSE
        LET full_path == key_origins[root_fingerprint].path
            expected == key_origins[root_fingerprint].expected
            m == matches(xpub, root_fingerprint, full_path)
        IN  IF ~m.some THEN Continue
            ELSE
            LET derive_path == SubSeq(full_path, Len(m.prefix) + 1, Len(full_path))
                v == verify_key(xpub, xpub.derivation_path \o derive_path, expected)
            IN  IF v.panic THEN Panic
                ELSE IF ~v.eq THEN Continue
                ELSE IF xpub.wildcard # "None" /\ Len(derive_path) = 1
                     THEN IF ~derive_path[1].h THEN Ours(derive_path[1].i)
                          ELSE Continue
                ELSE IF xpub.wildcard = "None" /\ derive_path = <<>>
                     THEN Ours(0)
                ELSE Continue

\* a for_any_key that visits every key and keeps the last one that resolved
RECURSIVE for_any_key_KeepLast(_, _, _)
for_any_key_KeepLast(keys, n, key_origins) ==
    IF n > Len(keys) THEN NotOurs
    ELSE LET rest == for_any_key_KeepLast(keys, n + 1, key_origins)
             r == key_closure(keys[n], key_origins)
         IN  IF rest.tag # "None" THEN rest
             ELSE IF r.tag = "Continue" THEN NotOurs ELSE r

\* ForEachKey::for_any_key over the descriptor's keys from the n-th on: stops
\* at the first key for which the closure returns true
RECURSIVE for_any_key(_, _, _)
for_any_key(keys, n, key_origins) ==
    IF n > Len(keys) THEN NotOurs
    ELSE LET r == key_closure(keys[n], key_origins)
         IN  IF r.tag = "Continue" THEN for_any_key(keys, n + 1, key_origins)
             ELSE r

\* DescriptorMeta::derive_from_psbt_key_origins: path_found, as Ours(index)
\* (the descriptor at that derivation index) or NotOurs
derive_from_psbt_key_origins(keys, key_origins) == for_any_key(keys, 1, key_origins)

(***************************************************************************)
(* Inputs of the verifier: descriptor keys and key-origin claims           *)
(***************************************************************************)
\* [fM/0']A/1/*  : this device's key on the internal (change) keychain
KLocalInt == [origin |-> Origin("fM", <<Hardened(0)>>), xkey |-> "A",
              derivation_path |-> <<Normal(1)>>, wildcard |-> "Unhardened"]
\* [fM/0']A/0/*  : this device's key on the external keychain
KLocalExt == [origin |-> Origin("fM", <<Hardened(0)>>), xkey |-> "A",
              derivation_path |-> <<Normal(0)>>, wildcard |-> "Unhardened"]
\* [fC/0']B/1/*  : a cosigner's key on the internal keychain
KCosignerInt == [origin |-> Origin("fC", <<Hardened(0)>>), xkey |-> "B",
                 derivation_path |-> <<Normal(1)>>, wildcard |-> "Unhardened"]
\* [fC/0']B/0/*  : a cosigner's key on the external keychain
KCosignerExt == [origin |-> Origin("fC", <<Hardened(0)>>), xkey |-> "B",
                 derivation_path |-> <<Normal(0)>>, wildcard |-> "Unhardened"]
\* B/1/*  : a key without origin metadata (fingerprint computed from the key)
KNoOrigin == [origin |-> NoOrigin, xkey |-> "B",
              derivation_path |-> <<Normal(1)>>, wildcard |-> "Unhardened"]
\* [fM/0']A/0  : a fixed key, no wildcard
KFixed == [origin |-> Origin("fM", <<Hardened(0)>>), xkey |-> "A",
           derivation_path |-> <<Normal(0)>>, wildcard |-> "None"]
\* A/*  : a wildcard directly on a key without origin or path
KBare == [origin |-> NoOrigin, xkey |-> "A",
          derivation_path |-> <<>>, wildcard |-> "Unhardened"]

KeySet == {KLocalInt, KCosignerInt, KNoOrigin, KFixed, KBare}

RootFingerprint(xpub) ==
    IF xpub.origin.some THEN xpub.origin.fp ELSE xkey_fingerprint(xpub.xkey)
ComparePath(xpub) ==
    IF xpub.origin.some THEN xpub.origin.path \o xpub.derivation_path
    ELSE xpub.derivation_path

FullKey(xkey, path) ==
    [kind |-> "FullKey", pk |-> [xk |-> xkey, p |-> path, odd |-> IsOdd(xkey, path)]]
\* the negated point: same x coordinate, other parity
NegatedKey(xkey, path) ==
    [kind |-> "FullKey", pk |-> [xk |-> xkey, p |-> path, odd |-> ~IsOdd(xkey, path)]]
XOnly(xkey, path) == [kind |-> "XOnly", pk |-> [xk |-> xkey, p |-> path]]
OtherXkey(xkey) == IF xkey = "A" THEN "B" ELSE "A"

\* the steps a claim appends to a key's path
ClaimSteps == {<<>>, <<Hardened(0)>>} \cup {<<Normal(i)>> : i \in 0..MaxIndex}
\* the normal form of a step (the key a hardened claim pretends to hold)
Unharden(step) == IF step = <<>> THEN <<>> ELSE <<Normal(step[1].i)>>

\* the claims an untrusted PSBT can make about key k: right or wrong path,
\* right key (full or x-only), negated key, a key of another extended key
ExpectedFor(k, step) ==
    LET path == k.derivation_path \o Unharden(step)
    IN  { FullKey(k.xkey, path), XOnly(k.xkey, path), NegatedKey(k.xkey, path),
          FullKey(OtherXkey(k.xkey), path) }
ClaimsAbout(k) ==
    UNION { { [path |-> ComparePath(k) \o step, expected |-> e] : e \in ExpectedFor(k, step) }
            : step \in ClaimSteps }
    \cup { [path |-> <<Hardened(1), Normal(0)>>,
            expected |-> FullKey(k.xkey, k.derivation_path \o <<Normal(0)>>)] }

ClaimsFor(fp) == UNION { ClaimsAbout(k) : k \in {x \in KeySet : RootFingerprint(x) = fp} }

\* descriptors, as their keys in for_any_key order: single keys, pairs of
\* distinct keys, and one three-key multisig
Descriptors ==
    { <<k>> : k \in KeySet }
    \cup ({ <<a, b>> : a \in KeySet, b \in KeySet } \ { <<k, k>> : k \in KeySet })
    \cup { <<KLocalInt, KCosignerInt, KNoOrigin>> }

Fingerprints(d) == { RootFingerprint(d[n]) : n \in 1..Len(d) }

\* key_origins: a BTreeMap, one claim at most per fingerprint
NoClaim == [none |-> TRUE]
ClaimOptions(fp, d) ==
    IF fp \in Fingerprints(d) THEN ClaimsFor(fp) \cup {NoClaim} ELSE {NoClaim}
KeyOriginMap(cM, cC, cA, cB) ==
    LET c == [fp \in {"fM", "fC", "fA", "fB"} |->
                 IF fp = "fM" THEN cM ELSE IF fp = "fC" THEN cC
                 ELSE IF fp = "fA" THEN cA ELSE cB]
    IN  [fp \in {x \in DOMAIN c : c[x] # NoClaim} |-> c[fp]]

(***************************************************************************)
(* Properties of the verifier                                              *)
(***************************************************************************)
\* re-deriving the key of xpub with `step` appended to its derivation path
\* gives the key the claim expects (full key, or x-only key)
KeyEqual(xpub, step, expected) ==
    LET d == derive_pub(xpub.xkey, xpub.derivation_path \o step)
    IN  /\ d.ok
        /\ \/ expected.kind = "FullKey" /\ expected.pk = d.public_key
           \/ expected.kind = "XOnly" /\ expected.pk = XOnlyFrom(d.public_key)

HasClaim(xpub, key_origins) == RootFingerprint(xpub) \in DOMAIN key_origins
ClaimOf(xpub, key_origins) == key_origins[RootFingerprint(xpub)]

\* the steps by which the claim's path continues the key's own path
\* (at most one step is ever taken off the claim's path)
ClaimContinuations(xpub, claim) ==
    { step \in ClaimSteps : claim.path = ComparePath(xpub) \o step }

\* the claim has the key's fingerprint and a path of the right shape: the
\* key's path plus one unhardened step for a wildcard key, the key's path
\* itself for a fixed key
RightSteps(xpub) ==
    IF xpub.wildcard = "None" THEN {<<>>} ELSE {<<Normal(i)>> : i \in 0..MaxIndex}
RightFingerprintAndPath(xpub, key_origins) ==
    /\ HasClaim(xpub, key_origins)
    /\ ClaimContinuations(xpub, ClaimOf(xpub, key_origins)) \cap RightSteps(xpub) # {}

\* the code accepts the claim for this key
Accepted(xpub, key_origins) == key_closure(xpub, key_origins).tag = "Some"

\* the indices this key resolves to by the rule of the verifier: right
\* fingerprint, right path shape, and the re-derived key equals the claim
ResolvedIndices(xpub, key_origins) ==
    IF ~HasClaim(xpub, key_origins) THEN {}
    ELSE { IF step = <<>> THEN 0 ELSE step[1].i :
             step \in { st \in ClaimContinuations(xpub, ClaimOf(xpub, key_origins))
                                 \cap RightSteps(xpub) :
                        KeyEqual(xpub, st, ClaimOf(xpub, key_origins).expected) } }

\* C4: a key-origin claim is accepted for a descriptor key only if
\* re-deriving the key at the claimed path gives the expected key, and a
\* claim with the right fingerprint and path is accepted iff the re-derived
\* key equals the expected key (full or x-only): never on fingerprint and
\* path alone.  The returned index comes from such a verified key.
C4_AcceptedIffKeyReDerived ==
    vpc = "done" =>
        /\ \A n \in 1..Len(vdesc) :
            /\ Accepted(vdesc[n], vorigins) =>
                    \E step \in ClaimContinuations(vdesc[n], ClaimOf(vdesc[n], vorigins)) :
                        KeyEqual(vdesc[n], step, ClaimOf(vdesc[n], vorigins).expected)
            /\ RightFingerprintAndPath(vdesc[n], vorigins) =>
                    (Accepted(vdesc[n], vorigins)
                        <=> \E step \in ClaimContinuations(vdesc[n], ClaimOf(vdesc[n], vorigins))
                                            \cap RightSteps(vdesc[n]) :
                                KeyEqual(vdesc[n], step, ClaimOf(vdesc[n], vorigins).expected))
        /\ vresult.tag = "Some" =>
                \E n \in 1..Len(vdesc) : vresult.index \in ResolvedIndices(vdesc[n], vorigins)

\* C4 witness: the only claim has the right fingerprint and path but
\* another key, and the verifier answered "not ours"
C4_Witness ==
    /\ vpc = "done"
    /\ vresult = NotOurs
    /\ \E n \in 1..Len(vdesc) :
        /\ RightFingerprintAndPath(vdesc[n], vorigins)
        /\ ResolvedIndices(vdesc[n], vorigins) = {}

\* the keys of the descriptor that resolve to an accepted index
ResolvingKeys == { n \in 1..Len(vdesc) : ResolvedIndices(vdesc[n], vorigins) # {} }

\* C6 as stated, for the calls that return: an index is returned only when
\* exactly one key resolves, and keys resolving to inconsistent indices, or
\* no key resolving, give "not ours"
C6_OnlyWhenExactlyOneKeyResolves ==
    (vpc = "done" /\ vresult.tag # "Panic") =>
        /\ vresult.tag = "Some" => Cardinality(ResolvingKeys) = 1
        /\ (\/ ResolvingKeys = {}
            \/ \E a, b \in ResolvingKeys :
                 ResolvedIndices(vdesc[a], vorigins) # ResolvedIndices(vdesc[b], vorigins))
           => vresult = NotOurs

\* C6 amended: the verifier returns the index of the first key, in
\* descriptor order, that resolves to an accepted index, whatever later
\* keys resolve to; it returns "not ours" only when no key resolves
C6_FirstResolvingKeyWins ==
    vpc = "done" =>
        /\ vresult.tag = "Some" =>
                \E n \in ResolvingKeys :
                    /\ vresult.index \in ResolvedIndices(vdesc[n], vorigins)
                    /\ \A m \in ResolvingKeys : n <= m
        /\ vresult = NotOurs => ResolvingKeys = {}
        /\ (ResolvingKeys # {} /\ vresult.tag # "Panic") => vresult.tag = "Some"

\* C6 witness: two keys resolve to different indices and the first one's
\* index was returned
C6_Witness ==
    /\ vpc = "done"
    /\ vresult.tag = "Some"
    /\ \E a, b \in ResolvingKeys :
        /\ a < b
        /\ ResolvedIndices(vdesc[a], vorigins) # ResolvedIndices(vdesc[b], vorigins)
        /\ vresult.index \in ResolvedIndices(vdesc[a], vorigins)

\* C7 as stated: a claim that continues a key's path with a hardened step
\* is rejected for that key as "not ours", and the verifier never panics
C7_HardenedStepIsNotOursNoPanic ==
    vpc = "done" =>
        /\ vresult.tag # "Panic"
        /\ \A n \in 1..Len(vdesc) :
            (/\ HasClaim(vdesc[n], vorigins)
             /\ \E step \in ClaimContinuations(vdesc[n], ClaimOf(vdesc[n], vorigins)) :
                    step # <<>> /\ step[1].h)
            => key_closure(vdesc[n], vorigins) = Continue

\* the claim for this key has the key's fingerprint and a path of the right
\* shape, and the key re-derived at the claimed path is not the expected one
Mismatch(xpub, key_origins) ==
    /\ RightFingerprintAndPath(xpub, key_origins)
    /\ ResolvedIndices(xpub, key_origins) = {}

\* the descriptor without its n-th key
WithoutKey(keys, n) == SubSeq(keys, 1, n - 1) \o SubSeq(keys, n + 1, Len(keys))

\* C29: a descriptor key whose re-derived key does not equal the claim's
\* expected key is passed over and the search goes on: the closure returns
\* false for it, the result of the call is the result of the search over
\* the other keys, and a later key that verifies makes the output ours when
\* the search reaches it.
C29_MismatchOnlySkipsThatKey ==
    vpc = "done" =>
        \A n \in 1..Len(vdesc) :
            Mismatch(vdesc[n], vorigins) =>
                /\ key_closure(vdesc[n], vorigins) = Continue
                /\ vresult = derive_from_psbt_key_origins(WithoutKey(vdesc, n), vorigins)
                /\ \A m \in ResolvingKeys :
                     (/\ n < m
                      /\ \A k \in 1..(m - 1) : key_closure(vdesc[k], vorigins).tag # "Panic")
                     => vresult.tag = "Some"

\* C29 witness: the first key's claim names another key, the second key's
\* claim verifies, and the output is ours at the second key's index
C29_Witness ==
    /\ vpc = "done"
    /\ Len(vdesc) >= 2
    /\ Mismatch(vdesc[1], vorigins)
    /\ 2 \in ResolvingKeys
    /\ vresult.tag = "Some"
    /\ vresult.index \in ResolvedIndices(vdesc[2], vorigins)

(***************************************************************************)
(* Part 2: the flow orchestrator                                           *)
(***************************************************************************)
VARIABLES
    state,          \* the tag of CurrentState ("Error"/"Panic": the handler
                    \* returned Err / panicked; "Reset": sys_reset after a wipe)
    pc,             \* where the running handler is suspended
    wallet,         \* the wallet held by the current state
    config,         \* the configuration page in flash
    req,            \* the payload of the current state (what the flow works on)
    resumable,      \* the handler's `resumable` argument: the cursor of this run
    is_fast_boot,   \* the handler's `is_fast_boot` argument
    pos,            \* how many page slots of the handler this run has passed
    ckpt,           \* the checkpoint record that survives a reset
    replies,        \* the replies sent to the requester in this run
    signed,         \* wallet.sign was called in this flow
    written,        \* write_config was called in this flow
    commits,        \* calls of checkpoint.commit in this flow
    removes,        \* calls of checkpoint.remove in this flow
    accepted,       \* page indices the user accepted in this flow
    acceptedRun,    \* page indices the user accepted in this run
    invoked,        \* page indices whose confirmation loop ran in this run
    drawn           \* page indices flushed to the display (draw = true) in this run

fvars == <<state, pc, wallet, config, req, resumable, is_fast_boot, pos, ckpt,
           replies, signed, written, commits, removes, accepted, acceptedRun,
           invoked, drawn>>
vars == <<vvars, fvars>>

\* a PSBT carries 0..MaxOutputs outputs
MaxOutputs == 2
\* a multisig request carries 0..MaxMultisigKeys keys
MaxMultisigKeys == 2
\* the largest amount: u64::MAX of bitcoin::Amount, scaled down
AmountMax == 7

(***************************************************************************)
(* The checkpoint module (crate::checkpoint), as the handlers use it       *)
(***************************************************************************)
NoCheckpoint == [some |-> FALSE]

\* Resumable::fresh(): the cursor of a brand-new flow
fresh == 0

\* Resumable::single_page_with_offset(page): None for a page behind the
\* cursor, otherwise Some((state, draw)) with draw true only at the cursor
single_page_with_offset(cursor, page) ==
    IF page < cursor THEN [some |-> FALSE, draw |-> FALSE]
    ELSE [some |-> TRUE, draw |-> (page = cursor)]

\* Checkpoint::commit: the record written to durable storage
commit(variant, cursor) == [some |-> TRUE, variant |-> variant, cursor |-> cursor]

\* manage_confirmation_loop_with_checkpoint: Ok when the user holds the
\* button to the end, Err when the user rejects, the page times out or the
\* display fails; on Ok the checkpoint's cursor moves past this page
manage_confirmation_loop_with_checkpoint(outcome) ==
    IF outcome = "accept" THEN "Ok" ELSE "Err"
advance(variant, page) == [some |-> TRUE, variant |-> variant, cursor |-> page + 1]

\* an aux data without the fee
SignPsbtState_NoFees(fees, outputs, sig_bytes) ==
    [fees |-> 0, outputs |-> outputs, sig_bytes |-> sig_bytes]

\* an aux data without the outputs
SignPsbtState_NoOutputs(fees, outputs, sig_bytes) ==
    [fees |-> fees, outputs |-> <<>>, sig_bytes |-> sig_bytes]

\* checkpoint::SignPsbtState { fees, outputs, sig_bytes }, encoded as the
\* aux data of the sign-PSBT checkpoint
SignPsbtState(fees, outputs, sig_bytes) ==
    [fees |-> fees, outputs |-> outputs, sig_bytes |-> sig_bytes]

\* Checkpoint::new(variant, Some(aux_data), ..): the record with aux data;
\* the aux data stays with the record when its cursor moves
with_aux_data(record, aux_data) ==
    [some |-> record.some, variant |-> record.variant, cursor |-> record.cursor,
     aux_data |-> aux_data]
keep_aux_data(record, old) ==
    IF old.some /\ "aux_data" \in DOMAIN old
    THEN with_aux_data(record, old.aux_data)
    ELSE record

(***************************************************************************)
(* Wallets, PSBTs and the computations of handle_sign_request              *)
(***************************************************************************)
\* PortalWallet, by what the handlers read of it
Wallet(multisig, taproot) == [multisig |-> multisig, taproot |-> taproot]
InitialWallet == Wallet(FALSE, FALSE)

\* wallet.public_descriptor(keychain): the descriptor's keys
public_descriptor(w, keychain) ==
    IF keychain = "Internal"
    THEN IF w.multisig THEN <<KLocalInt, KCosignerInt>> ELSE <<KLocalInt>>
    ELSE IF w.multisig THEN <<KLocalExt, KCosignerExt>> ELSE <<KLocalExt>>

\* psbt::Output with its transaction output: value, whether the script has an
\* address form, bip32_derivation and tap_key_origins (entries in key order)
PsbtOutput(value, has_address, bip32, tap) ==
    [value |-> value, has_address |-> has_address,
     bip32_derivation |-> bip32, tap_key_origins |-> tap]
KeySource(pk, fp, path) == [pk |-> pk, fingerprint |-> fp, path |-> path]
Point(xkey, path) == [xk |-> xkey, p |-> path, odd |-> IsOdd(xkey, path)]

\* change to the internal keychain at index MaxIndex
OutInternal ==
    PsbtOutput(1, TRUE,
        <<KeySource(Point("A", <<Normal(1), Normal(MaxIndex)>>), "fM",
                    <<Hardened(0), Normal(1), Normal(MaxIndex)>>)>>, <<>>)
\* a payment to the wallet's own external keychain at index MaxIndex
OutExternal ==
    PsbtOutput(1, TRUE,
        <<KeySource(Point("A", <<Normal(0), Normal(MaxIndex)>>), "fM",
                    <<Hardened(0), Normal(0), Normal(MaxIndex)>>)>>, <<>>)
\* a payment to somebody else: no key origin at all
OutForeign == PsbtOutput(1, TRUE, <<>>, <<>>)
\* a payment of the largest amount
OutForeignMax == PsbtOutput(AmountMax, TRUE, <<>>, <<>>)
\* a forged change output: our fingerprint and path, another key
OutWrongKey ==
    PsbtOutput(1, TRUE,
        <<KeySource(Point("B", <<Normal(1), Normal(MaxIndex)>>), "fM",
                    <<Hardened(0), Normal(1), Normal(MaxIndex)>>)>>, <<>>)
\* a claim that continues the internal keychain with a hardened step
OutHardened ==
    PsbtOutput(1, TRUE,
        <<KeySource(Point("A", <<Normal(1), Normal(0)>>), "fM",
                    <<Hardened(0), Normal(1), Hardened(0)>>)>>, <<>>)
\* an output whose script has no address form (e.g. OP_RETURN)
OutNoAddress == PsbtOutput(1, FALSE, <<>>, <<>>)

OutputSet == {OutInternal, OutExternal, OutForeign, OutForeignMax, OutWrongKey,
              OutHardened, OutNoAddress}

RECURSIVE OutputSeqs(_)
OutputSeqs(n) ==
    IF n = 0 THEN {<<>>}
    ELSE LET shorter == OutputSeqs(n - 1)
         IN  shorter \cup { Append(o, x) : o \in {t \in shorter : Len(t) = n - 1},
                                            x \in OutputSet }

\* psbt::Input with its TxIn: non_witness_utxo ("none"; "ok": it has the txid
\* the input names and the output index the input names; "wrong_txid";
\* "no_vout": the right txid but too few outputs), witness_utxo, the value
PsbtInput(nw, witness, value) == [nw |-> nw, witness |-> witness, value |-> value]
InputSeqs ==
    { <<PsbtInput("ok", FALSE, 1)>>, <<PsbtInput("ok", FALSE, 3)>>,
      <<PsbtInput("ok", TRUE, AmountMax)>>,
      <<PsbtInput("ok", FALSE, AmountMax), PsbtInput("ok", FALSE, 1)>>,
      <<PsbtInput("ok", FALSE, AmountMax), PsbtInput("ok", FALSE, 1),
        PsbtInput("none", FALSE, 1)>>,
      <<PsbtInput("ok", FALSE, 1), PsbtInput("none", TRUE, 2)>>,
      <<PsbtInput("wrong_txid", TRUE, 3)>>, <<PsbtInput("no_vout", FALSE, 3)>>,
      <<PsbtInput("none", TRUE, 3)>>, <<PsbtInput("none", FALSE, 3)>> }

\* the bytes of a SignPsbt request: undecodable, or a PSBT
Undecodable == [decodable |-> FALSE]
Psbts ==
    {Undecodable}
    \cup { [decodable |-> TRUE, inputs |-> i, outputs |-> o] :
             i \in InputSeqs, o \in OutputSeqs(MaxOutputs) }

\* collecting (fingerprint, (path, key)) pairs into a BTreeMap: the last
\* entry of a fingerprint wins
CollectOrigins(entries, kind) ==
    [fp \in { entries[n].fingerprint : n \in 1..Len(entries) } |->
        LET last == CHOOSE n \in 1..Len(entries) :
                        /\ entries[n].fingerprint = fp
                        /\ \A m \in 1..Len(entries) :
                               entries[m].fingerprint = fp => m <= n
        IN  [path |-> entries[last].path,
             expected |-> IF kind = "FullKey"
                          THEN [kind |-> "FullKey", pk |-> entries[last].pk]
                          ELSE [kind |-> "XOnly", pk |-> XOnlyFrom(entries[last].pk)]]]

\* DescriptorMeta::derive_from_hd_keypaths
derive_from_hd_keypaths(keys, hd_keypaths) ==
    derive_from_psbt_key_origins(keys, CollectOrigins(hd_keypaths, "FullKey"))

\* DescriptorMeta::derive_from_tap_key_origins
derive_from_tap_key_origins(keys, tap_key_origins) ==
    derive_from_psbt_key_origins(keys, CollectOrigins(tap_key_origins, "XOnly"))

\* DescriptorMeta::derive_from_psbt_output
derive_from_psbt_output(keys, psbt_output) ==
    LET hd == derive_from_hd_keypaths(keys, psbt_output.bip32_derivation)
    IN  IF hd.tag # "None" THEN hd
        ELSE derive_from_tap_key_origins(keys, psbt_output.tap_key_origins)

\* handle_sign_request, the loop over the inputs: the sum of the input
\* values, Err(FailedDeserialization) for an input without usable UTXO data,
\* a panic when the Amount addition overflows
RECURSIVE total_input_value(_, _, _, _)
total_input_value(inputs, n, sum, allow_witness_utxo) ==
    IF n > Len(inputs) THEN [tag |-> "Ok", value |-> sum]
    ELSE IF inputs[n].nw \in {"wrong_txid", "no_vout"} THEN [tag |-> "Err"]
    ELSE IF inputs[n].nw = "none" /\ ~(allow_witness_utxo /\ inputs[n].witness)
         THEN [tag |-> "Err"]
    ELSE IF sum + inputs[n].value > AmountMax THEN [tag |-> "Panic"]
    ELSE total_input_value(inputs, n + 1, sum + inputs[n].value, allow_witness_utxo)

\* handle_sign_request, the fold over the outputs: `sum + utxo.value` panics
\* when the Amount addition overflows
RECURSIVE total_output_value(_, _, _)
total_output_value(outputs, n, sum) ==
    IF n > Len(outputs) THEN [tag |-> "Ok", value |-> sum]
    ELSE IF sum + outputs[n].value > AmountMax THEN [tag |-> "Panic"]
    ELSE total_output_value(outputs, n + 1, sum + outputs[n].value)

\* the keychain against which an output is checked, were it the external one
OutputKeychain_External == "External"

\* the keychain whose descriptor handle_sign_request checks the outputs against
OutputKeychain == "Internal"

\* handle_sign_request, the loop that collects `outputs`: every output that
\* does not derive from the descriptor, with its address and value (the
\* address is named by the output's position n); the verifier's `expect` and
\* Address::from_script(..).unwrap() can panic
RECURSIVE foreign_outputs(_, _, _)
foreign_outputs(w, outputs, n) ==
    IF n > Len(outputs) THEN [panic |-> FALSE, outputs |-> <<>>]
    ELSE
    LET derived == derive_from_psbt_output(public_descriptor(w, OutputKeychain),
                                           outputs[n])
    IN  IF derived.tag = "Panic" THEN [panic |-> TRUE, outputs |-> <<>>]
        ELSE IF derived.tag = "None" /\ ~outputs[n].has_address
             THEN [panic |-> TRUE, outputs |-> <<>>]
        ELSE LET rest == foreign_outputs(w, outputs, n + 1)
             IN  IF rest.panic THEN rest
                 ELSE [panic |-> FALSE,
                       outputs |->
                         (IF derived.tag = "None"
                          THEN <<[address |-> n, value |-> outputs[n].value]>>
                          ELSE <<>>) \o rest.outputs]

\* a handler that takes a witness_utxo whatever the wallet's descriptor
allow_witness_utxo_Always(w) == TRUE

\* allow_witness_utxo: the wallet's external descriptor is Descriptor::Tr
allow_witness_utxo(w) == w.taproot

\* handle_sign_request up to the call of wallet.sign: Panic, Err or the
\* fees and the outputs to show
sign_request_checks(w, psbt) ==
    IF ~psbt.decodable THEN [tag |-> "Panic"]
    ELSE
    LET ins == total_input_value(psbt.inputs, 1, 0, allow_witness_utxo(w))
    IN  IF ins.tag # "Ok" THEN [tag |-> ins.tag]
        ELSE
        LET outs == total_output_value(psbt.outputs, 1, 0)
        IN  IF outs.tag # "Ok" THEN [tag |-> outs.tag]
            ELSE IF ins.value < outs.value THEN [tag |-> "Err"]
            ELSE LET shown == foreign_outputs(w, psbt.outputs, 1)
                 IN  IF shown.panic THEN [tag |-> "Panic"]
                     ELSE [tag |-> "Ok", fees |-> ins.value - outs.value,
                           outputs |-> shown.outputs]

(***************************************************************************)
(* The page sequences of the handlers                                      *)
(***************************************************************************)
\* a sign handler whose fee summary skips one index after the outputs
SignPsbtPages_Gap(outputs) ==
    [n \in 1..Len(outputs) |-> n - 1] \o <<Len(outputs) + 1>>

\* handle_confirm_sign_psbt: wrap_iter(outputs), one page per output, then
\* single_page_with_offset(outputs.len()) for the fee summary
SignPsbtPages(outputs) == [n \in 1..Len(outputs) |-> n - 1] \o <<Len(outputs)>>

\* handle_display_address_request: the question, then the address
DisplayAddressPages == <<0, 1>>
\* handle_public_descriptor_request
PublicDescriptorPages == <<0>>
\* handle_get_xpub_request
GetXpubPages == <<0>>

\* a set-descriptor handler that forgets `page_counter += 1` after the
\* first-address page
SetDescriptorPages_NoIncrement(variant) ==
    IF variant.kind = "SingleSig" THEN <<0, 1, 2, 3, 3>>
    ELSE <<0, 1, 2>> \o [n \in 1..Len(variant.keys) |-> 2 + n]
                     \o <<3 + Len(variant.keys), 3 + Len(variant.keys)>>

\* handle_set_descriptor_request: the values of page_counter at the pages:
\* policy, address type, derivation (single-sig) or threshold and one page
\* per key (multisig), first address, "Save new configuration?"
SetDescriptorPages(variant) ==
    IF variant.kind = "SingleSig" THEN <<0, 1, 2, 3, 4>>
    ELSE <<0, 1, 2>> \o [n \in 1..Len(variant.keys) |-> 2 + n]
                     \o <<3 + Len(variant.keys), 4 + Len(variant.keys)>>

\* a handler that runs every page, whatever single_page_with_offset says
NextSlot_NoSkip(pages, p, cursor) == IF p >= Len(pages) THEN Len(pages) ELSE p

\* `if let Some((state, draw)) = resumable.single_page_with_offset(..)`: the
\* first page slot from p on that is not skipped
RECURSIVE NextSlot(_, _, _)
NextSlot(pages, p, cursor) ==
    IF p >= Len(pages) THEN Len(pages)
    ELSE IF single_page_with_offset(cursor, pages[p + 1]).some THEN p
    ELSE NextSlot(pages, p + 1, cursor)

\* a handler that drops the result of the confirmation loop
Try_Ignore(result) == "Continue"

\* the `?` after manage_confirmation_loop_with_checkpoint(..).await: an Err
\* returns from the handler
Try(result) == IF result = "Ok" THEN "Continue" ELSE "Return"

(***************************************************************************)
(* SetDescriptor requests and the checks of handle_set_descriptor_request  *)
(***************************************************************************)
\* model::ExtendedKey, by what is_local_key reads of it
ExtendedKey(valid_xpub, network_ok, fp, hardened_path, derives) ==
    [valid_xpub |-> valid_xpub, network_ok |-> network_ok, fp |-> fp,
     hardened_path |-> hardened_path, derives |-> derives]
EKLocal == ExtendedKey(TRUE, TRUE, "fM", FALSE, TRUE)
EKExternal == ExtendedKey(TRUE, TRUE, "fC", FALSE, FALSE)
EKWrongNetwork == ExtendedKey(TRUE, FALSE, "fM", FALSE, TRUE)
EKInvalid == ExtendedKey(FALSE, TRUE, "fM", FALSE, TRUE)
\* our fingerprint on somebody else's xpub
EKSpoofed == ExtendedKey(TRUE, TRUE, "fM", FALSE, FALSE)
\* our key with a hardened step after the xpub
EKHardened == ExtendedKey(TRUE, TRUE, "fM", TRUE, TRUE)

\* the closure is_local_key: "Err", or Ok(true) / Ok(false)
is_local_key(key) ==
    IF ~key.valid_xpub THEN "Err"
    ELSE IF ~key.network_ok THEN "Err"
    ELSE IF key.fp # "fM" THEN "External"
    ELSE IF key.hardened_path THEN "External"
    ELSE IF key.derives THEN "Local" ELSE "External"

SingleSig(key) == [kind |-> "SingleSig", key |-> key]
MultiSig(threshold, keys, is_sorted) ==
    [kind |-> "MultiSig", threshold |-> threshold, keys |-> keys,
     is_sorted |-> is_sorted]

RECURSIVE MultisigKeySeqs(_)
MultisigKeySeqs(n) ==
    IF n = 0 THEN {<<>>}
    ELSE LET shorter == MultisigKeySeqs(n - 1)
         IN  shorter \cup { Append(ks, k) : ks \in {t \in shorter : Len(t) = n - 1},
                                             k \in {EKLocal, EKExternal, EKWrongNetwork} }

SetDescriptorVariants ==
    { SingleSig(k) : k \in {EKLocal, EKExternal, EKWrongNetwork, EKInvalid,
                            EKSpoofed, EKHardened} }
    \cup { MultiSig(t, ks, srt) : t \in 0..(MaxMultisigKeys + 1),
                                  ks \in MultisigKeySeqs(MaxMultisigKeys),
                                  srt \in BOOLEAN }

\* init::make_wallet_from_xprv: the descriptor cannot be built for a
\* threshold of zero
make_wallet_from_xprv(variant) ==
    ~(variant.kind = "MultiSig" /\ variant.threshold = 0)

\* a handler that does not compare the BSMS first address
checks_result_IgnoreBsms(variant, bsms) ==
    /\ IF variant.kind = "SingleSig"
       THEN is_local_key(variant.key) = "Local"
       ELSE /\ variant.is_sorted
            /\ variant.threshold <= Len(variant.keys)
            /\ \A n \in 1..Len(variant.keys) : is_local_key(variant.keys[n]) # "Err"
            /\ \E n \in 1..Len(variant.keys) : is_local_key(variant.keys[n]) = "Local"
    /\ make_wallet_from_xprv(variant)

\* a handler that takes any sorted multisig without looking for a local key
checks_result_NoLocalKey(variant, bsms) ==
    /\ IF variant.kind = "SingleSig"
       THEN is_local_key(variant.key) = "Local"
       ELSE /\ variant.is_sorted
            /\ variant.threshold <= Len(variant.keys)
            /\ \A n \in 1..Len(variant.keys) : is_local_key(variant.keys[n]) # "Err"
    /\ make_wallet_from_xprv(variant)
    /\ bsms # "mismatch"

\* the closure checks_result: TRUE for Ok((new_wallet, wallet_address)),
\* FALSE for Err(message)
checks_result(variant, bsms) ==
    /\ IF variant.kind = "SingleSig"
       THEN is_local_key(variant.key) = "Local"
       ELSE /\ variant.is_sorted
            /\ variant.threshold <= Len(variant.keys)
            /\ \A n \in 1..Len(variant.keys) : is_local_key(variant.keys[n]) # "Err"
            /\ \E n \in 1..Len(variant.keys) : is_local_key(variant.keys[n]) = "Local"
    /\ make_wallet_from_xprv(variant)
    /\ bsms # "mismatch"

\* the wallet built from the request
new_wallet(variant, script_type) ==
    Wallet(variant.kind = "MultiSig", script_type = "Taproot")

(***************************************************************************)
(* Requests                                                                *)
(***************************************************************************)
Request(kind) == [kind |-> kind]
Requests ==
    { Request(k) : k \in {"GetInfo", "BeginSignPsbt", "PublicDescriptor",
                          "BeginFwUpdate", "WipeDevice", "ShowMnemonic", "Unlock"} }
    \cup { [kind |-> "DisplayAddress", index |-> i] : i \in {0, MaxIndex} }
    \cup { [kind |-> "GetXpub", derivation_path |-> <<Hardened(0)>>] }
    \cup { [kind |-> "SetDescriptor", variant |-> v, script_type |-> t, bsms |-> b] :
             v \in SetDescriptorVariants, t \in {"NativeSegwit", "Taproot"},
             b \in {"none", "match", "mismatch"} }
    \cup { [kind |-> "SignPsbt", psbt |-> x] : x \in Psbts }

\* what handle_idle tells apart: any SignPsbt request falls to its `Some(_)`
IdleRequests ==
    { r \in Requests : r.kind # "SignPsbt" } \cup { [kind |-> "SignPsbt", psbt |-> Undecodable] }

NoRequest == [kind |-> "None"]

\* `if !is_fast_boot` committing on every run
ShouldCommit_Always(fast_boot) == TRUE

\* `if !is_fast_boot`: commit fully to flash only once, at the start
ShouldCommit(fast_boot) == ~fast_boot

(***************************************************************************)
(* The orchestrator: Init, handle_idle, handle_waiting_for_psbt, restart   *)
(***************************************************************************)
FlowInit ==
    /\ state = "Idle"
    /\ pc = "start"
    /\ wallet = InitialWallet
    /\ config = InitialWallet
    /\ req = NoRequest
    /\ resumable = fresh
    /\ is_fast_boot = FALSE
    /\ pos = 0
    /\ ckpt = NoCheckpoint
    /\ replies = <<>>
    /\ signed = FALSE
    /\ written = FALSE
    /\ commits = 0
    /\ removes = 0
    /\ accepted = {}
    /\ acceptedRun = {}
    /\ invoked = {}
    /\ drawn = <<>>

\* a handler returns Ok(next state) for a new flow: Resumable::fresh(),
\* is_fast_boot: false
BeginFlow(next, payload) ==
    /\ state' = next
    /\ req' = payload
    /\ pc' = "start"
    /\ resumable' = fresh
    /\ is_fast_boot' = FALSE
    /\ pos' = 0
    /\ replies' = <<>>
    /\ signed' = FALSE
    /\ written' = FALSE
    /\ commits' = 0
    /\ removes' = 0
    /\ accepted' = {}
    /\ acceptedRun' = {}
    /\ invoked' = {}
    /\ drawn' = <<>>
    /\ UNCHANGED <<wallet, config, ckpt>>

\* a reply that leaves the handler in its loop
ReplyAndStay(reply) ==
    /\ replies' = <<reply>>
    /\ UNCHANGED <<state, pc, wallet, config, req, resumable, is_fast_boot, pos,
                   ckpt, signed, written, commits, removes, accepted, acceptedRun,
                   invoked, drawn>>

\* the handler returns Err(..), or panics: `how` is "Panic", or the error
\* value: "FailedDeserialization", "BrokenProtocol", or "Error" for the
\* errors of the display, the storage and the confirmation loop
Abort(how) ==
    /\ state' = how
    /\ pc' = "done"

\* an orchestrator that also takes requests while the xpub export runs
handle_idle_Busy ==
    /\ UNCHANGED vvars
    /\ state \in {"Idle", "GetXpub"}
    /\ \E request \in IdleRequests :
        CASE request.kind = "GetInfo" -> ReplyAndStay("Info")
          [] request.kind = "DisplayAddress" -> BeginFlow("DisplayAddress", request)
          [] request.kind = "BeginSignPsbt" -> BeginFlow("WaitingForPsbt", NoRequest)
          [] request.kind = "PublicDescriptor" -> BeginFlow("PublicDescriptor", request)
          [] request.kind = "GetXpub" -> BeginFlow("GetXpub", request)
          [] request.kind = "SetDescriptor" -> BeginFlow("SetDescriptor", request)
          [] request.kind = "BeginFwUpdate" -> BeginFlow("UpdatingFw", request)
          [] request.kind = "WipeDevice" -> BeginFlow("WipeDevice", NoRequest)
          [] request.kind = "ShowMnemonic" -> BeginFlow("ShowMnemonic", request)
          [] OTHER -> ReplyAndStay("UnexpectedMessage")

\* handle_idle: one request taken off the event stream
handle_idle ==
    /\ UNCHANGED vvars
    /\ state = "Idle"
    /\ \E request \in IdleRequests :
        CASE request.kind = "GetInfo" -> ReplyAndStay("Info")
          [] request.kind = "DisplayAddress" -> BeginFlow("DisplayAddress", request)
          [] request.kind = "BeginSignPsbt" -> BeginFlow("WaitingForPsbt", NoRequest)
          [] request.kind = "PublicDescriptor" -> BeginFlow("PublicDescriptor", request)
          [] request.kind = "GetXpub" -> BeginFlow("GetXpub", request)
          [] request.kind = "SetDescriptor" -> BeginFlow("SetDescriptor", request)
          [] request.kind = "BeginFwUpdate" -> BeginFlow("UpdatingFw", request)
          [] request.kind = "WipeDevice" -> BeginFlow("WipeDevice", NoRequest)
          [] request.kind = "ShowMnemonic" -> BeginFlow("ShowMnemonic", request)
          [] OTHER -> ReplyAndStay("UnexpectedMessage")

\* a handler that fails on a wrong request without telling the host
handle_waiting_for_psbt_Silent ==
    /\ UNCHANGED vvars
    /\ state = "WaitingForPsbt"
    /\ \E request \in Requests :
        IF request.kind = "SignPsbt"
        THEN /\ state' = "SignPsbt"
             /\ req' = request
             /\ replies' = replies \o <<"Ok">>
             /\ UNCHANGED <<pc, wallet, config, resumable, is_fast_boot, pos, ckpt,
                            signed, written, commits, removes, accepted,
                            acceptedRun, invoked, drawn>>
        ELSE /\ Abort("BrokenProtocol")
             /\ replies' = replies \o <<"Ok">>
             /\ UNCHANGED <<wallet, config, req, resumable, is_fast_boot, pos, ckpt,
                            signed, written, commits, removes, accepted,
                            acceptedRun, invoked, drawn>>

\* handle_waiting_for_psbt: Ok is sent, then the next request is either the
\* PSBT or a protocol error
handle_waiting_for_psbt ==
    /\ UNCHANGED vvars
    /\ state = "WaitingForPsbt"
    /\ \E request \in Requests :
        IF request.kind = "SignPsbt"
        THEN /\ state' = "SignPsbt"
             /\ req' = request
             /\ replies' = replies \o <<"Ok">>
             /\ UNCHANGED <<pc, wallet, config, resumable, is_fast_boot, pos, ckpt,
                            signed, written, commits, removes, accepted,
                            acceptedRun, invoked, drawn>>
        ELSE /\ Abort("BrokenProtocol")
             /\ replies' = replies \o <<"Ok", "UnexpectedMessage">>
             /\ UNCHANGED <<wallet, config, req, resumable, is_fast_boot, pos, ckpt,
                            signed, written, commits, removes, accepted,
                            acceptedRun, invoked, drawn>>

\* the device restarts (power loss, reset, or the top level after an error):
\* the wallet is rebuilt from the configuration in flash, and a flow whose
\* checkpoint record exists is resumed at the recorded cursor; the sign
\* flow's outputs, fee and signature bytes are read back from the aux data
\* (req.psbt stays only to state properties against the first request)
Restart ==
    /\ UNCHANGED vvars
    /\ state \notin {"Idle", "Reset"}
    /\ wallet' = config
    /\ IF ckpt.some
       THEN /\ state' = ckpt.variant
            /\ resumable' = ckpt.cursor
            /\ is_fast_boot' = TRUE
            /\ pc' = IF ckpt.variant = "ConfirmSignPsbt" THEN "page" ELSE "start"
            /\ req' = IF ckpt.variant = "ConfirmSignPsbt"
                       THEN [kind |-> "ConfirmSignPsbt",
                             outputs |-> ckpt.aux_data.outputs,
                             fees |-> ckpt.aux_data.fees,
                             sig_bytes |-> ckpt.aux_data.sig_bytes,
                             psbt |-> req.psbt]
                       ELSE req
       ELSE /\ state' = "Idle"
            /\ resumable' = fresh
            /\ is_fast_boot' = FALSE
            /\ pc' = "start"
            /\ req' = NoRequest
    /\ pos' = 0
    /\ replies' = <<>>
    /\ acceptedRun' = {}
    /\ invoked' = {}
    /\ drawn' = <<>>
    /\ UNCHANGED <<config, ckpt, signed, written, commits, removes, accepted>>

(***************************************************************************)
(* The sign-PSBT flow                                                      *)
(***************************************************************************)
\* handle_sign_request: DelayedReply, the input and fee checks, the outputs
\* to show, wallet.sign and the signature diff, the checkpoint commit, and
\* ConfirmSignPsbt as the next state
handle_sign_request ==
    /\ UNCHANGED vvars
    /\ state = "SignPsbt"
    /\ replies' = Append(replies, "DelayedReply")
    /\ LET checks == sign_request_checks(wallet, req.psbt)
       IN  IF checks.tag = "Panic"
           THEN /\ Abort("Panic")
                /\ UNCHANGED <<req, resumable, ckpt, signed, commits>>
           ELSE IF checks.tag = "Err"
           THEN /\ Abort("FailedDeserialization")
                /\ UNCHANGED <<req, resumable, ckpt, signed, commits>>
           ELSE /\ signed' = TRUE
                /\ commits' = commits + 1
                /\ \E stored \in BOOLEAN :
                     IF stored
                     THEN /\ ckpt' = with_aux_data(
                                        commit("ConfirmSignPsbt", fresh),
                                        SignPsbtState(checks.fees, checks.outputs,
                                                      "sig_bytes"))
                          /\ state' = "ConfirmSignPsbt"
                          /\ pc' = "page"
                          /\ resumable' = fresh
                          /\ req' = [kind |-> "ConfirmSignPsbt",
                                     outputs |-> checks.outputs,
                                     fees |-> checks.fees,
                                     sig_bytes |-> "sig_bytes",
                                     psbt |-> req.psbt]
                     ELSE /\ Abort("Error")
                          /\ UNCHANGED <<req, resumable, ckpt>>
    /\ UNCHANGED <<wallet, config, is_fast_boot, pos, written, removes, accepted,
                   acceptedRun, invoked, drawn>>

\* one page of a handler: single_page_with_offset gave Some((state, draw)),
\* the page is drawn (flushed when draw), the confirmation loop runs, and
\* its result goes through `?`
ConfirmPages(variant, pages) ==
    LET slot == NextSlot(pages, pos, resumable)
    IN  /\ pc = "page"
        /\ slot < Len(pages)
        /\ \E outcome \in {"accept", "reject"} :
            LET page == pages[slot + 1]
                draw == single_page_with_offset(resumable, page).draw
                result == manage_confirmation_loop_with_checkpoint(outcome)
            IN  /\ invoked' = invoked \cup {page}
                /\ drawn' = IF draw THEN Append(drawn, page) ELSE drawn
                /\ IF result = "Ok"
                   THEN /\ accepted' = accepted \cup {page}
                        /\ acceptedRun' = acceptedRun \cup {page}
                        /\ ckpt' = keep_aux_data(advance(variant, page), ckpt)
                   ELSE UNCHANGED <<accepted, acceptedRun, ckpt>>
                /\ IF Try(result) = "Continue"
                   THEN /\ pos' = slot + 1
                        /\ UNCHANGED <<state, pc>>
                   ELSE /\ Abort("Error")
                        /\ pos' = pos
        /\ UNCHANGED <<wallet, config, req, resumable, is_fast_boot, replies, signed,
                       written, commits, removes>>

\* a handler whose last statements do not wait for its pages
PagesDone_Unchecked(pages) == pc = "page"

\* the statements after the last page of a handler run when every page slot
\* is behind this run
PagesDone(pages) == pc = "page" /\ NextSlot(pages, pos, resumable) = Len(pages)

\* the result reply of a handler, sent once every page is behind it
SendResult(reply) ==
    /\ replies' = Append(replies, reply)
    /\ pc' = "ack"
    /\ UNCHANGED <<state, wallet, req, resumable, is_fast_boot, pos, ckpt, signed,
                   commits, removes, accepted, acceptedRun, invoked, drawn>>

\* a handler that reaches checkpoint.remove while its pages are still open
Acknowledged_Early == pc \in {"page", "ack"}

\* a transport whose nfc_finished never fires: the handler waits forever
Acknowledged_Never == FALSE

\* the reply was handed to the transport (`.send(..).await.unwrap()`, and
\* nfc_finished.recv() in handle_confirm_sign_psbt): the statements after it run
Acknowledged == pc = "ack"

\* the end of a handler: checkpoint.remove, Ok(CurrentState::Idle { wallet })
Return(w) ==
    /\ Acknowledged
    /\ ckpt' = NoCheckpoint
    /\ removes' = removes + 1
    /\ state' = "Idle"
    /\ pc' = "start"
    /\ wallet' = w
    /\ req' = NoRequest
    /\ resumable' = fresh
    /\ is_fast_boot' = FALSE
    /\ pos' = 0
    /\ acceptedRun' = {}
    /\ invoked' = {}
    /\ drawn' = <<>>
    /\ UNCHANGED <<config, replies, signed, written, commits, accepted>>

\* a handler that goes to its first page without telling the host to wait
StartWithoutCommit_NoDelayedReply ==
    /\ pc = "start"
    /\ pc' = "page"
    /\ UNCHANGED <<state, wallet, config, req, resumable, is_fast_boot, pos, ckpt,
                   replies, signed, written, commits, removes, accepted,
                   acceptedRun, invoked, drawn>>

\* `if !is_fast_boot { .. DelayedReply }` of the handlers that show pages
\* without a record in flash
StartWithoutCommit ==
    /\ pc = "start"
    /\ pc' = "page"
    /\ replies' = IF ~is_fast_boot THEN Append(replies, "DelayedReply") ELSE replies
    /\ UNCHANGED <<state, wallet, config, req, resumable, is_fast_boot, pos, ckpt,
                   signed, written, commits, removes, accepted, acceptedRun,
                   invoked, drawn>>

\* a handler that drops the result of commit and goes on to its pages
StartWithCommit_IgnoreError(variant) ==
    /\ pc = "start"
    /\ IF ShouldCommit(is_fast_boot)
       THEN /\ commits' = commits + 1
            /\ \E stored \in BOOLEAN :
                 ckpt' = IF stored THEN commit(variant, resumable) ELSE ckpt
            /\ replies' = Append(replies, "DelayedReply")
            /\ pc' = "page"
            /\ UNCHANGED state
       ELSE /\ pc' = "page"
            /\ UNCHANGED <<state, ckpt, replies, commits>>
    /\ UNCHANGED <<wallet, config, req, resumable, is_fast_boot, pos, signed,
                   written, removes, accepted, acceptedRun, invoked, drawn>>

\* `if !is_fast_boot { checkpoint.commit(peripherals)?; .. DelayedReply }`
StartWithCommit(variant) ==
    /\ pc = "start"
    /\ IF ShouldCommit(is_fast_boot)
       THEN /\ commits' = commits + 1
            /\ \E stored \in BOOLEAN :
                 IF stored
                 THEN /\ ckpt' = commit(variant, resumable)
                      /\ replies' = Append(replies, "DelayedReply")
                      /\ pc' = "page"
                      /\ UNCHANGED state
                 ELSE /\ Abort("Error")
                      /\ UNCHANGED <<ckpt, replies>>
       ELSE /\ pc' = "page"
            /\ UNCHANGED <<state, ckpt, replies, commits>>
    /\ UNCHANGED <<wallet, config, req, resumable, is_fast_boot, pos, signed,
                   written, removes, accepted, acceptedRun, invoked, drawn>>

\* handle_confirm_sign_psbt: the output pages and the fee summary page
handle_confirm_sign_psbt_page ==
    /\ UNCHANGED vvars
    /\ state = "ConfirmSignPsbt"
    /\ ConfirmPages("ConfirmSignPsbt", SignPsbtPages(req.outputs))

\* a handler that removes the checkpoint before it sends the signed PSBT
handle_confirm_sign_psbt_reply_RemoveFirst ==
    /\ UNCHANGED vvars
    /\ state = "ConfirmSignPsbt"
    /\ PagesDone(SignPsbtPages(req.outputs))
    /\ ckpt' = NoCheckpoint
    /\ removes' = removes + 1
    /\ replies' = Append(replies, "SignedPsbt")
    /\ pc' = "ack"
    /\ UNCHANGED <<state, wallet, req, resumable, is_fast_boot, pos, signed,
                   commits, accepted, acceptedRun, invoked, drawn, config, written>>

\* handle_confirm_sign_psbt: the SignedPsbt reply (empty PSBT ++ sig_bytes)
handle_confirm_sign_psbt_reply ==
    /\ UNCHANGED vvars
    /\ state = "ConfirmSignPsbt"
    /\ PagesDone(SignPsbtPages(req.outputs))
    /\ SendResult("SignedPsbt")
    /\ UNCHANGED <<config, written>>

\* handle_confirm_sign_psbt: nfc_finished received, checkpoint.remove, Idle
handle_confirm_sign_psbt_finish ==
    /\ UNCHANGED vvars
    /\ state = "ConfirmSignPsbt"
    /\ Return(wallet)

(***************************************************************************)
(* Display address, public descriptor, xpub export                         *)
(***************************************************************************)
handle_display_address_request_start ==
    /\ UNCHANGED vvars
    /\ state = "DisplayAddress"
    /\ StartWithoutCommit

handle_display_address_request_page ==
    /\ UNCHANGED vvars
    /\ state = "DisplayAddress"
    /\ ConfirmPages("DisplayAddress", DisplayAddressPages)

handle_display_address_request_reply ==
    /\ UNCHANGED vvars
    /\ state = "DisplayAddress"
    /\ PagesDone(DisplayAddressPages)
    /\ SendResult("Address")
    /\ UNCHANGED <<config, written>>

handle_display_address_request_finish ==
    /\ UNCHANGED vvars
    /\ state = "DisplayAddress"
    /\ Return(wallet)

handle_public_descriptor_request_start ==
    /\ UNCHANGED vvars
    /\ state = "PublicDescriptor"
    /\ StartWithoutCommit

handle_public_descriptor_request_page ==
    /\ UNCHANGED vvars
    /\ state = "PublicDescriptor"
    /\ ConfirmPages("PublicDescriptor", PublicDescriptorPages)

handle_public_descriptor_request_reply ==
    /\ UNCHANGED vvars
    /\ state = "PublicDescriptor"
    /\ PagesDone(PublicDescriptorPages)
    /\ SendResult("Descriptor")
    /\ UNCHANGED <<config, written>>

handle_public_descriptor_request_finish ==
    /\ UNCHANGED vvars
    /\ state = "PublicDescriptor"
    /\ Return(wallet)

handle_get_xpub_request_start ==
    /\ UNCHANGED vvars
    /\ state = "GetXpub"
    /\ StartWithCommit("GetXpub")

handle_get_xpub_request_page ==
    /\ UNCHANGED vvars
    /\ state = "GetXpub"
    /\ ConfirmPages("GetXpub", GetXpubPages)

handle_get_xpub_request_reply ==
    /\ UNCHANGED vvars
    /\ state = "GetXpub"
    /\ PagesDone(GetXpubPages)
    /\ SendResult("Xpub")
    /\ UNCHANGED <<config, written>>

handle_get_xpub_request_finish ==
    /\ UNCHANGED vvars
    /\ state = "GetXpub"
    /\ Return(wallet)

(***************************************************************************)
(* Set descriptor                                                          *)
(***************************************************************************)
\* handle_set_descriptor_request up to the first page: the checks, then the
\* commit and DelayedReply of a run that is not resumed
handle_set_descriptor_request_start ==
    /\ UNCHANGED vvars
    /\ state = "SetDescriptor"
    /\ IF checks_result(req.variant, req.bsms)
       THEN StartWithCommit("SetDescriptor")
       ELSE /\ pc = "start"
            /\ replies' = Append(replies, "Error")
            /\ state' = "Idle"
            /\ pc' = "start"
            /\ req' = NoRequest
            /\ UNCHANGED <<wallet, config, resumable, is_fast_boot, pos, ckpt,
                           signed, written, commits, removes, accepted,
                           acceptedRun, invoked, drawn>>

handle_set_descriptor_request_page ==
    /\ UNCHANGED vvars
    /\ state = "SetDescriptor"
    /\ ConfirmPages("SetDescriptor", SetDescriptorPages(req.variant))

\* write_config(..)?, then Reply::Ok
handle_set_descriptor_request_reply ==
    /\ UNCHANGED vvars
    /\ state = "SetDescriptor"
    /\ PagesDone(SetDescriptorPages(req.variant))
    /\ \E flashed \in BOOLEAN :
        IF flashed
        THEN /\ written' = TRUE
             /\ config' = new_wallet(req.variant, req.script_type)
             /\ SendResult("Ok")
        ELSE /\ Abort("Error")
             /\ UNCHANGED <<wallet, config, req, resumable, is_fast_boot, pos, ckpt,
                            replies, signed, written, commits, removes, accepted,
                            acceptedRun, invoked, drawn>>

\* a handler that returns Idle with the wallet it was called with
handle_set_descriptor_request_finish_OldWallet ==
    /\ UNCHANGED vvars
    /\ state = "SetDescriptor"
    /\ Return(wallet)

\* checkpoint.remove, Idle with the new wallet
handle_set_descriptor_request_finish ==
    /\ UNCHANGED vvars
    /\ state = "SetDescriptor"
    /\ Return(new_wallet(req.variant, req.script_type))

(***************************************************************************)
(* Wipe, and the states this model leaves to their own handlers            *)
(***************************************************************************)
\* a wipe that erases the configuration before it asks the user
wipe_device_EraseFirst ==
    /\ UNCHANGED vvars
    /\ state = "WipeDevice"
    /\ invoked' = {0}
    /\ \E outcome \in {"accept", "reject", "flash_error"} :
        /\ acceptedRun' = IF outcome = "reject" THEN {} ELSE {0}
        /\ IF outcome = "accept"
           THEN /\ config' = [wiped |-> TRUE]
                /\ replies' = Append(replies, "Ok")
                /\ state' = "Reset"
                /\ pc' = "done"
           ELSE /\ Abort("Error")
                /\ config' = IF outcome = "reject" THEN [wiped |-> TRUE] ELSE config
                /\ UNCHANGED replies
    /\ UNCHANGED <<wallet, req, resumable, is_fast_boot, pos, ckpt, signed, written,
                   commits, removes, accepted, drawn>>

\* wipe_device: the page, the confirmation loop (page 0 of the run: accepted,
\* or rejected with Err), write_flash of an empty configuration (or its Err),
\* Reply::Ok, sys_reset
wipe_device ==
    /\ UNCHANGED vvars
    /\ state = "WipeDevice"
    /\ invoked' = {0}
    /\ \E outcome \in {"accept", "reject", "flash_error"} :
        /\ acceptedRun' = IF outcome = "reject" THEN {} ELSE {0}
        /\ IF outcome = "accept"
           THEN /\ config' = [wiped |-> TRUE]
                /\ replies' = Append(replies, "Ok")
                /\ state' = "Reset"
                /\ pc' = "done"
           ELSE /\ Abort("Error")
                /\ UNCHANGED <<config, replies>>
    /\ UNCHANGED <<wallet, req, resumable, is_fast_boot, pos, ckpt, signed, written,
                   commits, removes, accepted, drawn>>

(***************************************************************************)
(* The firmware's handlers as one state machine                            *)
(***************************************************************************)
\* the output harness at rest
OutputIdle ==
    /\ opc = "done"
    /\ odesc = <<KLocalInt>>
    /\ ooutput = OutForeign
    /\ oresult = NotOurs

\* the signature harness at rest
SigIdle ==
    /\ spc = "done"
    /\ sround = 2
    /\ sbefore = <<>>
    /\ ssigner = [slots |-> {}, spendable |-> {}]
    /\ spsbt = <<>>
    /\ current_sigs = <<>>
    /\ sdiff = <<>>
    /\ sbytes = <<>>
    /\ spayload = <<>>

Init ==
    /\ FlowInit
    /\ SigIdle
    /\ OutputIdle
    /\ vpc = "done"
    /\ vdesc = <<KLocalInt>>
    /\ vorigins = KeyOriginMap(NoClaim, NoClaim, NoClaim, NoClaim)
    /\ vresult = NotOurs

Next ==
    \/ handle_idle
    \/ handle_waiting_for_psbt
    \/ handle_sign_request
    \/ handle_confirm_sign_psbt_page
    \/ handle_confirm_sign_psbt_reply
    \/ handle_confirm_sign_psbt_finish
    \/ handle_display_address_request_start
    \/ handle_display_address_request_page
    \/ handle_display_address_request_reply
    \/ handle_display_address_request_finish
    \/ handle_public_descriptor_request_start
    \/ handle_public_descriptor_request_page
    \/ handle_public_descriptor_request_reply
    \/ handle_public_descriptor_request_finish
    \/ handle_get_xpub_request_start
    \/ handle_get_xpub_request_page
    \/ handle_get_xpub_request_reply
    \/ handle_get_xpub_request_finish
    \/ handle_set_descriptor_request_start
    \/ handle_set_descriptor_request_page
    \/ handle_set_descriptor_request_reply
    \/ handle_set_descriptor_request_finish
    \/ wipe_device
    \/ Restart

Spec == Init /\ [][Next]_vars

\* one step of the handler of a flow in progress
HandlerStep ==
    \/ handle_waiting_for_psbt
    \/ handle_sign_request
    \/ handle_confirm_sign_psbt_page
    \/ handle_confirm_sign_psbt_reply
    \/ handle_confirm_sign_psbt_finish
    \/ handle_display_address_request_start
    \/ handle_display_address_request_page
    \/ handle_display_address_request_reply
    \/ handle_display_address_request_finish
    \/ handle_public_descriptor_request_start
    \/ handle_public_descriptor_request_page
    \/ handle_public_descriptor_request_reply
    \/ handle_public_descriptor_request_finish
    \/ handle_get_xpub_request_start
    \/ handle_get_xpub_request_page
    \/ handle_get_xpub_request_reply
    \/ handle_get_xpub_request_finish
    \/ handle_set_descriptor_request_start
    \/ handle_set_descriptor_request_page
    \/ handle_set_descriptor_request_reply
    \/ handle_set_descriptor_request_finish
    \/ wipe_device

\* the device is restarted after a handler failed
Recover == state \in {"Error", "FailedDeserialization", "BrokenProtocol", "Panic"} /\ Restart

\* the handlers while the device stays powered during a flow, under the
\* assumption that the user and the transport deliver the event a handler
\* awaits, and that a device whose handler failed is restarted: the
\* handler of a flow in progress eventually takes its step. The host need
\* not send a request to an idle device.
LiveNext ==
    \/ handle_idle
    \/ HandlerStep
    \/ Recover

FlowStep == HandlerStep \/ Recover

LiveSpec == Init /\ [][LiveNext]_vars /\ WF_vars(FlowStep)

(***************************************************************************)
(* derive_from_psbt_key_origins on its own, over descriptors and claims    *)
(***************************************************************************)
VerifierInit ==
    /\ FlowInit
    /\ SigIdle
    /\ OutputIdle
    /\ vpc = "input"
    /\ vdesc \in Descriptors
    /\ \E cM \in ClaimOptions("fM", vdesc), cC \in ClaimOptions("fC", vdesc),
          cA \in ClaimOptions("fA", vdesc), cB \in ClaimOptions("fB", vdesc) :
            vorigins = KeyOriginMap(cM, cC, cA, cB)
    /\ vresult = NotOurs

Verify ==
    /\ vpc = "input"
    /\ vresult' = derive_from_psbt_key_origins(vdesc, vorigins)
    /\ vpc' = "done"
    /\ UNCHANGED <<vdesc, vorigins, fvars, svars, ovars>>

VerifierNext == Verify

VerifierSpec == VerifierInit /\ [][VerifierNext]_vars

(***************************************************************************)
(* Part 3: CurrentSignatures, SigsDiff and the SignedPsbt payload          *)
(***************************************************************************)
\* the public keys and x-only keys of the signature maps are 1..MaxSigKeys
MaxSigKeys == 2

\* bitcoin::PublicKey and (XOnlyPublicKey, TapLeafHash), the keys of
\* partial_sigs and tap_script_sigs, as tuples under their Ord
PublicKey(k) == <<k>>
TapScriptSlot(k) == <<k, 0>>
TapKeySlot == <<0>>
PublicKeys == { PublicKey(k) : k \in 1..MaxSigKeys }
TapScriptSlots == { TapScriptSlot(k) : k \in 1..MaxSigKeys }
Less(a, b) == a[1] < b[1] \/ (a[1] = b[1] /\ Len(a) = 2 /\ a[2] < b[2])

\* iteration over the keys of a BTreeMap: ascending
RECURSIVE Ascending(_)
Ascending(S) ==
    IF S = {} THEN <<>>
    ELSE LET m == CHOOSE x \in S : \A y \in S \ {x} : Less(x, y)
         IN  <<m>> \o Ascending(S \ {m})

\* Option<taproot::Signature>
NoSig == [some |-> FALSE]
SomeSig(v) == [some |-> TRUE, v |-> v]

\* the signature a cosigner left in the request, and the one wallet.sign makes
CosignerSig(slot) == 100 + slot[1]
OurSig(slot) == 200 + slot[1]

\* psbt::Input, by its three signature fields
SigInput(P, t, S) ==
    [partial_sigs |-> [k \in P |-> CosignerSig(k)],
     tap_key_sig |-> IF t THEN SomeSig(CosignerSig(TapKeySlot)) ELSE NoSig,
     tap_script_sigs |-> [k \in S |-> CosignerSig(k)]]

\* a snapshot that forgets the key-path signature
from_psbt_NoTapKey(inputs) ==
    [n \in 1..Len(inputs) |->
        [partial_sigs |-> Ascending(DOMAIN inputs[n].partial_sigs),
         tap_key_sig |-> FALSE,
         tap_script_sigs |-> Ascending(DOMAIN inputs[n].tap_script_sigs)]]

\* CurrentSignatures::from_psbt
from_psbt(inputs) ==
    [n \in 1..Len(inputs) |->
        [partial_sigs |-> Ascending(DOMAIN inputs[n].partial_sigs),
         tap_key_sig |-> inputs[n].tap_key_sig.some,
         tap_script_sigs |-> Ascending(DOMAIN inputs[n].tap_script_sigs)]]

\* slice::binary_search(&k).is_ok() on a sorted Vec
RECURSIVE search(_, _, _, _)
search(seq, lo, hi, x) ==
    IF lo >= hi THEN FALSE
    ELSE LET mid == lo + (hi - lo) \div 2
         IN  IF seq[mid + 1] = x THEN TRUE
             ELSE IF Less(seq[mid + 1], x) THEN search(seq, mid + 1, hi, x)
             ELSE search(seq, lo, mid, x)
binary_search(seq, x) == search(seq, 0, Len(seq), x)

\* `for (k, v) in map { if s.binary_search(&k).is_err() { sigs.push((k, v)) } }`
RECURSIVE Pushed(_, _, _)
Pushed(keys, map, snapshot) ==
    IF keys = <<>> THEN <<>>
    ELSE (IF ~binary_search(snapshot, Head(keys))
          THEN << <<Head(keys), map[Head(keys)]>> >>
          ELSE <<>>) \o Pushed(Tail(keys), map, snapshot)

\* the closure of CurrentSignatures::diff, for one input and its snapshot
diff_input(i, s) ==
    [partial_sigs |->
        Pushed(Ascending(DOMAIN i.partial_sigs), i.partial_sigs, s.partial_sigs),
     tap_key_sig |-> IF ~s.tap_key_sig THEN i.tap_key_sig ELSE NoSig,
     tap_script_sigs |->
        Pushed(Ascending(DOMAIN i.tap_script_sigs), i.tap_script_sigs,
               s.tap_script_sigs)]

\* a diff that does not look at the snapshot
diff_NoSnapshot(sigs, inputs) ==
    [n \in 1..Len(inputs) |->
        diff_input(inputs[n],
                   [partial_sigs |-> <<>>, tap_key_sig |-> FALSE,
                    tap_script_sigs |-> <<>>])]

\* CurrentSignatures::diff: psbt.inputs zipped with the snapshot
diff(sigs, inputs) ==
    [n \in 1..(IF Len(inputs) < Len(sigs) THEN Len(inputs) ELSE Len(sigs)) |->
        diff_input(inputs[n], sigs[n])]

\* wallet.sign(&mut psbt, ..): the signer's signatures are inserted into the
\* inputs the wallet can spend; nothing is removed
sign_input(i, slots) ==
    [partial_sigs |->
        [k \in DOMAIN i.partial_sigs \cup (slots \cap PublicKeys) |->
            IF k \in slots THEN OurSig(k) ELSE i.partial_sigs[k]],
     tap_key_sig |->
        IF TapKeySlot \in slots THEN SomeSig(OurSig(TapKeySlot)) ELSE i.tap_key_sig,
     tap_script_sigs |->
        [k \in DOMAIN i.tap_script_sigs \cup (slots \cap TapScriptSlots) |->
            IF k \in slots THEN OurSig(k) ELSE i.tap_script_sigs[k]]]
sign(inputs, signer) ==
    [n \in 1..Len(inputs) |->
        IF n \in signer.spendable THEN sign_input(inputs[n], signer.slots)
        ELSE inputs[n]]

\* SerializePsbt for PublicKey, ecdsa::Signature, taproot::Signature and
\* (XOnlyPublicKey, TapLeafHash): the bytes, shortened; a DER signature ends
\* with its sighash byte, and a zero byte may occur anywhere
PublicKeyBytes(k) == <<2, k[1]>>
EcdsaSignatureBytes(v) == <<48, v, 0, 1>>
TaprootSignatureBytes(v) == <<v, 0>>
TapScriptSlotBytes(k) == <<k[1], k[2]>>

\* VarInt::consensus_encode
VarInt(n) == IF n < 253 THEN <<n>> ELSE <<253, n % 256, n \div 256>>

\* a key length that does not count the type byte
SerializeKey_NoTypeByte(type_value, key) == VarInt(Len(key)) \o <<type_value>> \o key

\* SerializePsbt for psbt::raw::Key and psbt::raw::Pair
SerializeKey(type_value, key) == VarInt(Len(key) + 1) \o <<type_value>> \o key
SerializePair(pair) ==
    SerializeKey(pair.type_value, pair.key) \o VarInt(Len(pair.value)) \o pair.value

\* build_pair, applied in the order SigsDiff::serialize goes through the diff
build_pair(type_value, key, value) ==
    [type_value |-> type_value, key |-> key, value |-> value]
Pairs(d) ==
    [n \in 1..Len(d.partial_sigs) |->
        build_pair(2, PublicKeyBytes(d.partial_sigs[n][1]),
                   EcdsaSignatureBytes(d.partial_sigs[n][2]))]
    \o (IF d.tap_key_sig.some
        THEN <<build_pair(19, <<>>, TaprootSignatureBytes(d.tap_key_sig.v))>>
        ELSE <<>>)
    \o [n \in 1..Len(d.tap_script_sigs) |->
        build_pair(20, TapScriptSlotBytes(d.tap_script_sigs[n][1]),
                   TaprootSignatureBytes(d.tap_script_sigs[n][2]))]

RECURSIVE Extend(_, _)
Extend(pairs, n) ==
    IF n = 0 THEN <<>> ELSE Extend(pairs, n - 1) \o SerializePair(pairs[n])

\* a serialization without the end-of-map byte
serialize_NoTerminator(d) == Extend(Pairs(d), Len(Pairs(d)))

\* SigsDiff::serialize
serialize(d) == Extend(Pairs(d), Len(Pairs(d))) \o <<0>>

\* `for input in &diff { sig_bytes.extend(input.serialize()) }`
RECURSIVE SigBytes(_, _)
SigBytes(diffs, n) ==
    IF n = 0 THEN <<>> ELSE SigBytes(diffs, n - 1) \o serialize(diffs[n])

\* empty_psbt: the magic, one global record of type 0x00 with a 0x33-byte
\* value (an empty raw transaction), the end of the global map
empty_psbt ==
    <<112, 115, 98, 116, 255,
      1, 0, 51, 0, 0, 0, 0, 1, 0,
      0, 0, 0, 0, 0, 0, 0, 0, 0,
      0, 0, 0, 0, 0, 0, 0, 0, 0,
      0, 0, 0, 0, 0, 0, 0, 0, 0,
      0, 0, 0, 0, 255, 255, 255, 255, 0,
      255, 255, 255, 255, 0, 0, 0, 0, 0,
      0>>

\* a reader of the PSBT key/value grammar: <keylen> <type> <key> <valuelen>
\* <value>, repeated, up to a zero keylen
Byte(bytes, at) == IF at \in 1..Len(bytes) THEN bytes[at] ELSE 0
Slice(bytes, at, n) == [j \in 1..n |-> Byte(bytes, at + j - 1)]
ReadVarInt(bytes, at) ==
    IF Byte(bytes, at) < 253 THEN [v |-> Byte(bytes, at), next |-> at + 1]
    ELSE [v |-> Byte(bytes, at + 1) + 256 * Byte(bytes, at + 2), next |-> at + 3]
RECURSIVE ReadMap(_, _)
ReadMap(bytes, at) ==
    LET keylen == ReadVarInt(bytes, at)
    IN  IF keylen.v = 0 THEN [pairs |-> <<>>, next |-> keylen.next]
        ELSE LET valuelen == ReadVarInt(bytes, keylen.next + keylen.v)
                 rest == ReadMap(bytes, valuelen.next + valuelen.v)
             IN  [pairs |->
                    <<build_pair(Byte(bytes, keylen.next),
                                 Slice(bytes, keylen.next + 1, keylen.v - 1),
                                 Slice(bytes, valuelen.next, valuelen.v))>>
                    \o rest.pairs,
                  next |-> rest.next]
\* `count` maps read one after the other, from `at`
RECURSIVE ReadMaps(_, _, _)
ReadMaps(bytes, at, count) ==
    IF count = 0 THEN <<>>
    ELSE LET m == ReadMap(bytes, at)
         IN  <<[pairs |-> m.pairs, at |-> at, next |-> m.next]>>
             \o ReadMaps(bytes, m.next, count - 1)

\* the requests of the signature harness: PSBTs of one input with any
\* signatures already in it, and of two inputs, one of them with any
\* signatures and the other unsigned or signed by a cosigner
AllSigInputs ==
    { SigInput(P, t, S) :
        P \in SUBSET PublicKeys, t \in BOOLEAN, S \in SUBSET TapScriptSlots }
OtherSigInputs ==
    { SigInput({}, FALSE, {}),
      SigInput({PublicKey(MaxSigKeys)}, TRUE, {TapScriptSlot(1)}) }
SigPsbts ==
    { <<a>> : a \in AllSigInputs }
    \cup { <<a, o>> : a \in AllSigInputs, o \in OtherSigInputs }
    \cup { <<o, a>> : a \in AllSigInputs, o \in OtherSigInputs }
Signers(n) ==
    { [slots |-> s, spendable |-> sp] :
        s \in {{}, PublicKeys \cup {TapKeySlot} \cup TapScriptSlots}
              \cup { {k} : k \in PublicKeys \cup {TapKeySlot} \cup TapScriptSlots },
        sp \in SUBSET (1..n) }

SigInit ==
    /\ FlowInit
    /\ OutputIdle
    /\ vpc = "done"
    /\ vdesc = <<KLocalInt>>
    /\ vorigins = KeyOriginMap(NoClaim, NoClaim, NoClaim, NoClaim)
    /\ vresult = NotOurs
    /\ spc = "request"
    /\ sround = 1
    /\ sbefore \in SigPsbts
    /\ ssigner \in Signers(Len(sbefore))
    /\ spsbt = sbefore
    /\ current_sigs = <<>>
    /\ sdiff = <<>>
    /\ sbytes = <<>>
    /\ spayload = <<>>

\* handle_sign_request: `let current_sigs = CurrentSignatures::from_psbt(&psbt)`
take_snapshot ==
    /\ spc = "request"
    /\ current_sigs' = from_psbt(spsbt)
    /\ spc' = "snapshot"
    /\ UNCHANGED <<sround, sbefore, ssigner, spsbt, sdiff, sbytes, spayload>>
    /\ UNCHANGED <<vpc, vdesc, vorigins, vresult, fvars, ovars>>

\* handle_sign_request: wallet.sign(&mut psbt, ..).unwrap()
wallet_sign ==
    /\ spc = "snapshot"
    /\ spsbt' = sign(spsbt, ssigner)
    /\ spc' = "signed"
    /\ UNCHANGED <<sround, sbefore, ssigner, current_sigs, sdiff, sbytes, spayload>>
    /\ UNCHANGED <<vpc, vdesc, vorigins, vresult, fvars, ovars>>

\* handle_sign_request: `let diff = CurrentSignatures::diff(&current_sigs, psbt)`
take_diff ==
    /\ spc = "signed"
    /\ sdiff' = diff(current_sigs, spsbt)
    /\ spc' = "diff"
    /\ UNCHANGED <<sround, sbefore, ssigner, spsbt, current_sigs, sbytes, spayload>>
    /\ UNCHANGED <<vpc, vdesc, vorigins, vresult, fvars, ovars>>

\* handle_sign_request: sig_bytes, the serialized diffs one after the other
extend_sig_bytes ==
    /\ spc = "diff"
    /\ sbytes' = SigBytes(sdiff, Len(sdiff))
    /\ spc' = "sig_bytes"
    /\ UNCHANGED <<sround, sbefore, ssigner, spsbt, current_sigs, sdiff, spayload>>
    /\ UNCHANGED <<vpc, vdesc, vorigins, vresult, fvars, ovars>>

\* handle_confirm_sign_psbt: empty_psbt.extend(sig_bytes), Reply::SignedPsbt
send_signed_psbt ==
    /\ spc = "sig_bytes"
    /\ spayload' = empty_psbt \o sbytes
    /\ spc' = "done"
    /\ UNCHANGED <<sround, sbefore, ssigner, spsbt, current_sigs, sdiff, sbytes>>
    /\ UNCHANGED <<vpc, vdesc, vorigins, vresult, fvars, ovars>>

\* the host sends the PSBT with the new signatures merged in to be signed
\* once more
sign_again ==
    /\ spc = "done"
    /\ sround = 1
    /\ sround' = 2
    /\ sbefore' = spsbt
    /\ spc' = "request"
    /\ current_sigs' = <<>>
    /\ sdiff' = <<>>
    /\ sbytes' = <<>>
    /\ spayload' = <<>>
    /\ UNCHANGED <<ssigner, spsbt>>
    /\ UNCHANGED <<vpc, vdesc, vorigins, vresult, fvars, ovars>>

SigNext ==
    \/ take_snapshot
    \/ wallet_sign
    \/ take_diff
    \/ extend_sig_bytes
    \/ send_signed_psbt
    \/ sign_again

SigSpec == SigInit /\ [][SigNext]_vars

(***************************************************************************)
(* derive_from_psbt_output over the two key-origin maps of an output       *)
(***************************************************************************)
\* the entries an untrusted PSBT can put for a key of the internal keychain
\* ([fp/0']xkey/1/*) into bip32_derivation or tap_key_origins: the key at
\* index 0 or MaxIndex, another key under the right path, a hardened last
\* step, the key of the external keychain
OriginEntries(fp, xkey) ==
    { KeySource(Point(xkey, <<Normal(1), Normal(i)>>), fp,
                <<Hardened(0), Normal(1), Normal(i)>>) : i \in {0, MaxIndex} }
    \cup { KeySource(Point(OtherXkey(xkey), <<Normal(1), Normal(0)>>), fp,
                     <<Hardened(0), Normal(1), Normal(0)>>),
           KeySource(Point(xkey, <<Normal(1), Normal(0)>>), fp,
                     <<Hardened(0), Normal(1), Hardened(0)>>),
           KeySource(Point(xkey, <<Normal(0), Normal(0)>>), fp,
                     <<Hardened(0), Normal(0), Normal(0)>>) }

\* a key-origin map of an output: empty, one entry, or one entry for each of
\* the two fingerprints
OriginMaps ==
    {<<>>}
    \cup { <<e>> : e \in OriginEntries("fM", "A") \cup OriginEntries("fC", "B") }
    \cup { <<a, b>> : a \in OriginEntries("fM", "A"), b \in OriginEntries("fC", "B") }

OutputInit ==
    /\ FlowInit
    /\ SigIdle
    /\ vpc = "done"
    /\ vdesc = <<KLocalInt>>
    /\ vorigins = KeyOriginMap(NoClaim, NoClaim, NoClaim, NoClaim)
    /\ vresult = NotOurs
    /\ opc = "input"
    /\ odesc \in {<<KLocalInt>>, <<KLocalInt, KCosignerInt>>, <<KCosignerInt, KLocalInt>>}
    /\ \E bip32 \in OriginMaps, tap \in OriginMaps :
            ooutput = PsbtOutput(1, TRUE, bip32, tap)
    /\ oresult = NotOurs

\* the call derive_from_psbt_output(psbt_output, secp) of handle_sign_request
derive_output ==
    /\ opc = "input"
    /\ oresult' = derive_from_psbt_output(odesc, ooutput)
    /\ opc' = "done"
    /\ UNCHANGED <<odesc, ooutput, vpc, vdesc, vorigins, vresult, svars, fvars>>

OutputNext == derive_output

OutputSpec == OutputInit /\ [][OutputNext]_vars

(***************************************************************************)
(* Properties of the signature diff and its wire format                    *)
(***************************************************************************)
\* the diff has been computed
DiffTaken == spc \in {"diff", "sig_bytes", "done"}
\* the keys of a Vec of (key, signature)
KeysOf(list) == { list[j][1] : j \in 1..Len(list) }
\* a SigsDiff without any entry
EmptyDiff(d) == d.partial_sigs = <<>> /\ ~d.tap_key_sig.some /\ d.tap_script_sigs = <<>>

\* C21: for every input the diff holds a signature slot (an ECDSA public
\* key, the key-path signature, an (x-only key, leaf hash) pair) iff the
\* slot was absent when from_psbt took the snapshot and is present in the
\* PSBT after signing; each slot is there once, with the PSBT's signature.
C21_DiffIsNewSignatures ==
    DiffTaken =>
        /\ Len(sdiff) = Len(spsbt)
        /\ \A n \in 1..Len(sdiff) :
            LET d == sdiff[n]
                b == sbefore[n]
                a == spsbt[n]
            IN  /\ \A k \in PublicKeys :
                     k \in KeysOf(d.partial_sigs) <=>
                        (k \notin DOMAIN b.partial_sigs /\ k \in DOMAIN a.partial_sigs)
                /\ d.tap_key_sig.some <=> (~b.tap_key_sig.some /\ a.tap_key_sig.some)
                /\ \A k \in TapScriptSlots :
                     k \in KeysOf(d.tap_script_sigs) <=>
                        (k \notin DOMAIN b.tap_script_sigs
                         /\ k \in DOMAIN a.tap_script_sigs)
                /\ Len(d.partial_sigs) = Cardinality(KeysOf(d.partial_sigs))
                /\ Len(d.tap_script_sigs) = Cardinality(KeysOf(d.tap_script_sigs))
                /\ \A j \in 1..Len(d.partial_sigs) :
                     d.partial_sigs[j][2] = a.partial_sigs[d.partial_sigs[j][1]]
                /\ \A j \in 1..Len(d.tap_script_sigs) :
                     d.tap_script_sigs[j][2] = a.tap_script_sigs[d.tap_script_sigs[j][1]]
                /\ d.tap_key_sig.some => d.tap_key_sig = a.tap_key_sig

\* C21 witness: the second input came with a cosigner's signature for the
\* highest key and the wallet added one for key 1: the diff of that input
\* is the wallet's signature alone, and the unspendable first input's is empty
C21_Witness ==
    /\ spc = "done"
    /\ sround = 1
    /\ Len(sdiff) = 2
    /\ EmptyDiff(sdiff[1])
    /\ PublicKey(MaxSigKeys) \in DOMAIN sbefore[2].partial_sigs
    /\ sdiff[2].partial_sigs = << <<PublicKey(1), OurSig(PublicKey(1))>> >>
    /\ ~sdiff[2].tap_key_sig.some

\* C22: the diff of a PSBT against a snapshot of that same PSBT is empty
\* for every input: signing a PSBT that already carries the wallet's
\* signatures adds nothing to the reply.
C22_DiffOfSnapshotIsEmpty ==
    (DiffTaken /\ spsbt = sbefore) => \A n \in 1..Len(sdiff) : EmptyDiff(sdiff[n])

\* C22 witness: the second pass over a PSBT that the first pass signed
\* with every key of the wallet
C22_Witness ==
    /\ spc = "done"
    /\ sround = 2
    /\ spsbt = sbefore
    /\ spsbt[1].tap_key_sig = SomeSig(OurSig(TapKeySlot))
    /\ DOMAIN spsbt[1].partial_sigs = PublicKeys
    /\ DOMAIN spsbt[1].tap_script_sigs = TapScriptSlots

\* sig_bytes has been built
Serialized == spc \in {"sig_bytes", "done"}

\* C23: reading sig_bytes by the PSBT key/value grammar gives back, for
\* every input, the (type, key bytes, value bytes) triples of its diff in
\* the order they were written, and the reading ends with the last byte.
C23_SerializeRoundTrip ==
    Serialized =>
        LET maps == ReadMaps(sbytes, 1, Len(sdiff))
        IN  /\ \A n \in 1..Len(sdiff) : maps[n].pairs = Pairs(sdiff[n])
            /\ maps[Len(sdiff)].next = Len(sbytes) + 1
            /\ \A n \in 1..Len(sdiff) :
                 \A j \in 1..Len(maps[n].pairs) :
                    maps[n].pairs[j].type_value \in {2, 19, 20}

\* C23 witness: one diff with the three record types, ECDSA entries first
C23_Witness ==
    /\ spc = "sig_bytes"
    /\ Len(sdiff) = 1
    /\ LET pairs == ReadMap(sbytes, 1).pairs
       IN  /\ Len(pairs) = 2 * MaxSigKeys + 1
           /\ pairs[1].type_value = 2
           /\ pairs[MaxSigKeys + 1].type_value = 19
           /\ pairs[MaxSigKeys + 1].key = <<>>
           /\ pairs[Len(pairs)].type_value = 20

\* C24: the SignedPsbt payload is the 60 bytes of the empty-transaction
\* PSBT (magic 70 73 62 74 ff, one global record of type 0x00 holding the
\* 51-byte transaction, the end of the global map) followed by, for each
\* input in order, its serialized diff ended by one zero byte; an input
\* with no new signature contributes that zero byte alone.
C24_PayloadIsPreambleThenDiffs ==
    spc = "done" =>
        LET global == ReadMap(spayload, 6)
            maps == ReadMaps(spayload, Len(empty_psbt) + 1, Len(spsbt))
        IN  /\ Len(empty_psbt) = 60
            /\ SubSeq(spayload, 1, 5) = <<112, 115, 98, 116, 255>>
            /\ Len(global.pairs) = 1
            /\ global.pairs[1].type_value = 0
            /\ global.pairs[1].key = <<>>
            /\ Len(global.pairs[1].value) = 51
            /\ global.next = 61
            /\ Len(sdiff) = Len(spsbt)
            /\ \A n \in 1..Len(spsbt) :
                 /\ maps[n].pairs = Pairs(sdiff[n])
                 /\ maps[n].next - 1 \in 1..Len(spayload)
                 /\ spayload[maps[n].next - 1] = 0
                 /\ EmptyDiff(sdiff[n]) => maps[n].next = maps[n].at + 1
            /\ maps[Len(spsbt)].next = Len(spayload) + 1

\* C24 witness: two inputs, the first without a new signature and the
\* second with one: 60 bytes, one zero byte, one record and its zero byte
C24_Witness ==
    /\ spc = "done"
    /\ Len(spsbt) = 2
    /\ EmptyDiff(sdiff[1])
    /\ spayload[61] = 0
    /\ Len(Pairs(sdiff[2])) = 1
    /\ Len(spayload) > 63

\* C24 as stated: the preamble is 57 bytes long, the diffs follow it
C24_AsStated ==
    spc = "done" =>
        \A n \in 1..Len(spsbt) :
            ReadMaps(spayload, 58, Len(spsbt))[n].pairs = Pairs(sdiff[n])

(***************************************************************************)
(* Properties of the flows                                                 *)
(***************************************************************************)
\* the states whose handlers show confirmation pages, and their pages
PageStates == {"ConfirmSignPsbt", "DisplayAddress", "PublicDescriptor", "GetXpub",
               "SetDescriptor"}
FlowPages ==
    CASE state = "ConfirmSignPsbt" -> SignPsbtPages(req.outputs)
      [] state = "DisplayAddress" -> DisplayAddressPages
      [] state = "PublicDescriptor" -> PublicDescriptorPages
      [] state = "GetXpub" -> GetXpubPages
      [] state = "SetDescriptor" -> SetDescriptorPages(req.variant)
      [] OTHER -> <<>>
PageSet == { FlowPages[n] : n \in 1..Len(FlowPages) }

\* the result reply of each flow
ResultReply ==
    CASE state = "ConfirmSignPsbt" -> "SignedPsbt"
      [] state = "DisplayAddress" -> "Address"
      [] state = "PublicDescriptor" -> "Descriptor"
      [] state = "GetXpub" -> "Xpub"
      [] state = "SetDescriptor" -> "Ok"
      [] OTHER -> "none"
Sent(reply) == \E n \in 1..Len(replies) : replies[n] = reply

\* C1: in every flow the result reply (SignedPsbt, Address, Descriptor,
\* Xpub, Ok for SetDescriptor) is sent only after the user accepted, in this
\* run, every page of the flow at or above the resumable cursor; a run
\* that ended in a rejection or timeout has sent no result reply.
C1_ResultOnlyAfterAllPagesAccepted ==
    /\ state \in PageStates =>
          (Sent(ResultReply) =>
              /\ pc = "ack"
              /\ \A p \in PageSet : p >= resumable => p \in acceptedRun)
    /\ state = "Error" =>
          /\ \A r \in {"SignedPsbt", "Address", "Descriptor", "Xpub"} : ~Sent(r)
          /\ req.kind = "SetDescriptor" => ~Sent("Ok")

\* C1 witness: a fresh signing flow with at least one output page, every
\* page accepted, SignedPsbt sent
C1_Witness ==
    /\ state = "ConfirmSignPsbt"
    /\ resumable = fresh
    /\ Len(req.outputs) >= 1
    /\ Sent("SignedPsbt")
    /\ acceptedRun = PageSet

\* C2 as stated: wallet.sign has not run before the fee summary page, the
\* last page of the signing flow, was accepted
C2_SignOnlyAfterFeePageAccepted ==
    (state = "ConfirmSignPsbt" /\ signed) => Len(req.outputs) \in accepted

\* C3: in the set-descriptor flow write_config runs only after every page,
\* up to and including "Save new configuration?", was accepted; a step of
\* the flow that ends in a rejection or a failed page leaves the stored
\* configuration as it was.
C3_WriteConfigOnlyAfterAllPagesAccepted ==
    /\ [](state = "SetDescriptor" /\ written => PageSet \subseteq accepted)
    /\ [][state = "SetDescriptor" =>
            /\ config' # config => (PageSet \subseteq accepted /\ pc' = "ack")
            /\ state' = "Error" => config' = config]_vars

\* C3 witness: every page of a multisig set-descriptor flow was accepted
\* and the new configuration is in flash
C3_Witness ==
    /\ state = "SetDescriptor"
    /\ pc = "ack"
    /\ written
    /\ req.variant.kind = "MultiSig"
    /\ config = new_wallet(req.variant, req.script_type)
    /\ config # InitialWallet
    /\ PageSet = accepted

\* the output verifies against the descriptor of this keychain of the
\* wallet: some key of the descriptor resolves one of the output's claims
VerifiesAs(w, keychain, psbt_output) ==
    \E n \in 1..Len(public_descriptor(w, keychain)) :
        LET xpub == public_descriptor(w, keychain)[n]
        IN  \/ ResolvedIndices(xpub, CollectOrigins(psbt_output.bip32_derivation,
                                                     "FullKey")) # {}
            \/ ResolvedIndices(xpub, CollectOrigins(psbt_output.tap_key_origins,
                                                     "XOnly")) # {}

\* the pages of outputs are exactly the outputs in `hidden`'s complement,
\* in the order of the PSBT, each with its own value
ShowsAllBut(hidden) ==
    LET outs == req.psbt.outputs
        shown == { n \in 1..Len(outs) : n \notin hidden }
    IN  /\ Len(req.outputs) = Cardinality(shown)
        /\ \A j \in 1..Len(req.outputs) :
            /\ req.outputs[j].address \in shown
            /\ req.outputs[j].value = outs[req.outputs[j].address].value
            /\ \A k \in 1..Len(req.outputs) :
                 j < k => req.outputs[j].address < req.outputs[k].address

\* C5 as stated: an output is shown iff it does not verify as the wallet's,
\* by the external or the internal descriptor
C5_ShownIffNotOurs ==
    state = "ConfirmSignPsbt" =>
        ShowsAllBut({ n \in 1..Len(req.psbt.outputs) :
                        \/ VerifiesAs(wallet, "External", req.psbt.outputs[n])
                        \/ VerifiesAs(wallet, "Internal", req.psbt.outputs[n]) })

\* C5 amended: an output is put on the list of destinations shown to the
\* user iff it does not verify against the wallet's internal (change)
\* descriptor; an output paying the wallet's external descriptor is shown.
C5_ShownIffNotInternal ==
    state = "ConfirmSignPsbt" =>
        ShowsAllBut({ n \in 1..Len(req.psbt.outputs) :
                        VerifiesAs(wallet, "Internal", req.psbt.outputs[n]) })

\* C5 witness: output 0 is the wallet's change, output 1 is foreign, and the
\* one output page is for output 1
C5_Witness ==
    /\ state = "ConfirmSignPsbt"
    /\ req.psbt.outputs = <<OutInternal, OutForeign>>
    /\ req.outputs = <<[address |-> 2, value |-> OutForeign.value]>>

\* C8 as stated: a run with cursor k, 0 <= k <= N, has invoked the
\* confirmation loop for no page below k and, once through its pages, for
\* every page from k on, and draw was true exactly once, at page k
C8_DrawExactlyOnceAtCursor ==
    state \in PageStates =>
        /\ \A p \in invoked : p >= resumable
        /\ pc = "ack" =>
            /\ invoked = { p \in PageSet : p >= resumable }
            /\ drawn = <<resumable>>

\* C8 amended: a run with cursor k, 0 <= k <= N, invokes the confirmation
\* loop for no page below k and, when it gets through its pages, for every
\* page from k on; draw is true at page k and at no other page, so exactly
\* once when k < N and never when k = N, where no page is left.
C8_DrawOnlyAtCursorPage ==
    state \in PageStates =>
        /\ resumable <= Len(FlowPages)
        /\ \A p \in invoked : p >= resumable
        /\ drawn = (IF resumable \in invoked THEN <<resumable>> ELSE <<>>)
        /\ pc = "ack" =>
            /\ invoked = { p \in PageSet : p >= resumable }
            /\ drawn = (IF resumable < Len(FlowPages) THEN <<resumable>> ELSE <<>>)

\* C8 witness: a run resumed in the middle of a flow got through its pages
C8_Witness ==
    /\ state \in PageStates
    /\ pc = "ack"
    /\ 0 < resumable
    /\ resumable + 1 < Len(FlowPages)
    /\ drawn = <<resumable>>
    /\ invoked = { p \in PageSet : p >= resumable }

\* C9: within one flow, resets and resumed runs included, each page the
\* confirmation loop runs for has a higher index than every page accepted
\* in the flow and every page of this run, and neither the cursor of the
\* running handler nor the recorded cursor ever decreases.
C9_PagesAscendCursorNeverDecreases ==
    [][ /\ LET slot == NextSlot(FlowPages, pos, resumable)
           IN  (/\ state \in PageStates
                /\ pc = "page"
                /\ slot < Len(FlowPages)
                /\ (pos' = slot + 1 \/ state' = "Error"))
               => \A q \in accepted \cup invoked : q < FlowPages[slot + 1]
        /\ (state # "Idle" /\ state' # "Idle") =>
              /\ resumable' >= resumable
              /\ ckpt'.some => ckpt'.cursor >= resumable'
              /\ (ckpt.some /\ ckpt'.some) => ckpt'.cursor >= ckpt.cursor ]_vars

\* C9 witness: a set-descriptor flow that was reset and resumed after some
\* pages has had all its pages accepted
C9_Witness ==
    /\ state = "SetDescriptor"
    /\ is_fast_boot
    /\ 1 < resumable
    /\ ckpt.some
    /\ ckpt.cursor = Len(FlowPages)
    /\ accepted = PageSet

\* C10: a flow calls commit at most once: a fresh sign-PSBT, get-xpub or
\* set-descriptor flow that gets to its pages has called it exactly once,
\* and a run resumed after a restart (is_fast_boot) does not call it.
C10_CommitAtMostOncePerFlow ==
    /\ [](commits <= 1)
    /\ []((state \in {"ConfirmSignPsbt", "GetXpub", "SetDescriptor"}
              /\ pc \in {"page", "ack"}) => commits = 1)
    /\ [][is_fast_boot => commits' = commits]_vars

\* C10 witness: a resumed set-descriptor run is through its pages and the
\* flow has committed once
C10_Witness ==
    /\ state = "SetDescriptor"
    /\ is_fast_boot
    /\ pc = "ack"
    /\ commits = 1

\* C11: in every flow checkpoint.remove is called at most once, and only
\* at the successful end of a handler: after the privileged action (the
\* signature, the written configuration) and after the result reply was
\* sent; a flow that ended in an error or a panic has not called it.
C11_RemoveOnceAfterResult ==
    /\ [](removes <= 1)
    /\ [](state \in {"Error", "Panic"} => removes = 0)
    /\ [][(state # "Idle" /\ removes' # removes) =>
            /\ removes' = 1
            /\ state \in PageStates
            /\ pc = "ack"
            /\ Sent(ResultReply)
            /\ state = "ConfirmSignPsbt" => signed
            /\ state = "SetDescriptor" => written
            /\ state' = "Idle"
            /\ ~ckpt'.some]_vars

\* C11 witness: a set-descriptor flow is back at Idle, its configuration
\* written, its Ok sent, its checkpoint removed once
C11_Witness ==
    /\ state = "Idle"
    /\ removes = 1
    /\ written
    /\ Sent("Ok")
    /\ ~ckpt.some

\* the running handler returned Err from the confirmation loop of a page:
\* a page of this run was invoked and not accepted
PageRejected == state = "Error" /\ invoked \ acceptedRun # {}

\* C12 as stated: a rejected page aborts the flow; the committed checkpoint
\* stays in the sign-PSBT flow and is erased at once in the export flows
\* (display-address, public-descriptor, get-xpub)
C12_RejectErasesExportCheckpoint ==
    PageRejected =>
        /\ req.kind = "ConfirmSignPsbt" => ckpt.some
        /\ req.kind \in {"DisplayAddress", "PublicDescriptor", "GetXpub"} => ~ckpt.some

\* C13 as stated: a SignPsbt request whose bytes are no PSBT is answered
\* with the error FailedDeserialization, without a signing call and
\* without a checkpoint
C13_UndecodableIsFailedDeserialization ==
    (req.kind = "SignPsbt" /\ ~req.psbt.decodable /\ state # "SignPsbt") =>
        /\ state = "FailedDeserialization"
        /\ ~signed
        /\ ~ckpt.some

\* the exact sum of the values of a sequence of inputs or outputs
RECURSIVE SumValues(_, _)
SumValues(items, n) ==
    IF n = 0 THEN 0 ELSE SumValues(items, n - 1) + items[n].value

\* a decodable SignPsbt request that handle_sign_request has dealt with
SignRequestHandled ==
    /\ req.kind = "SignPsbt"
    /\ req.psbt.decodable
    /\ state # "SignPsbt"

\* C14 as stated: an overflow of the summed input or output values, or
\* inputs below outputs, is answered with FailedDeserialization, without a
\* signing call and without a checkpoint; a fee that is produced is the
\* exact difference inputs - outputs >= 0
C14_FeeOverflowIsFailedDeserialization ==
    /\ SignRequestHandled =>
        LET ins == SumValues(req.psbt.inputs, Len(req.psbt.inputs))
            outs == SumValues(req.psbt.outputs, Len(req.psbt.outputs))
        IN  (ins > AmountMax \/ outs > AmountMax \/ ins < outs) =>
                /\ state = "FailedDeserialization"
                /\ ~signed
                /\ ~ckpt.some
    /\ state = "ConfirmSignPsbt" =>
        /\ req.fees = SumValues(req.psbt.inputs, Len(req.psbt.inputs))
                        - SumValues(req.psbt.outputs, Len(req.psbt.outputs))
        /\ req.fees >= 0

\* the input carries UTXO data the handler may use: a non_witness_utxo
\* with the named txid and output index, or no non_witness_utxo, a taproot
\* external descriptor and a witness_utxo
UsableInput(w, input) ==
    \/ input.nw = "ok"
    \/ input.nw = "none" /\ w.taproot /\ input.witness
UnusableInputs(w, inputs) == { n \in 1..Len(inputs) : ~UsableInput(w, inputs[n]) }

NoLocalKey(variant) ==
    IF variant.kind = "SingleSig"
    THEN is_local_key(variant.key) # "Local"
    ELSE \A n \in 1..Len(variant.keys) : is_local_key(variant.keys[n]) # "Local"
InvalidThreshold(variant) ==
    variant.kind = "MultiSig" /\ variant.threshold > Len(variant.keys)
FailsNamedCheck(request) ==
    \/ NoLocalKey(request.variant)
    \/ InvalidThreshold(request.variant)
    \/ request.bsms = "mismatch"

\* C16: a SetDescriptor request that fails the descriptor checks (no local
\* key, invalid threshold, BSMS first address mismatch) never gets past
\* the checks: no checkpoint is committed, no page is shown, nothing is
\* written; the handler's step replies Error and returns to Idle with the
\* wallet, the configuration and the (absent) checkpoint as they were.
C16_FailedChecksReplyErrorAndIdle ==
    /\ []((state = "SetDescriptor" /\ FailsNamedCheck(req)) =>
            /\ pc = "start"
            /\ commits = 0
            /\ ~ckpt.some
            /\ invoked = {}
            /\ ~written)
    /\ [][(state = "SetDescriptor" /\ FailsNamedCheck(req)) =>
            /\ state' = "Idle"
            /\ wallet' = wallet
            /\ config' = config
            /\ ~ckpt'.some
            /\ commits' = 0
            /\ ~written'
            /\ replies' = Append(replies, "Error") \/ replies' = <<>>]_vars

\* C16 witness: the Error reply of a refused request, back at Idle with
\* the first wallet and nothing committed
C16_Witness ==
    /\ state = "Idle"
    /\ replies = <<"Error">>
    /\ wallet = InitialWallet
    /\ config = InitialWallet
    /\ commits = 0
    /\ ~ckpt.some

\* C17: a multisig descriptor that passed the checks, and so is at its
\* pages or written, has at least one local key, a threshold of at most
\* its number of keys, and is sorted; an unsorted multisig never gets
\* past the checks.
C17_AcceptedMultisigIsLocalSortedInRange ==
    (state = "SetDescriptor" /\ req.variant.kind = "MultiSig") =>
        /\ pc \in {"page", "ack"} =>
            /\ \E n \in 1..Len(req.variant.keys) :
                    is_local_key(req.variant.keys[n]) = "Local"
            /\ req.variant.threshold <= Len(req.variant.keys)
            /\ req.variant.is_sorted
        /\ ~req.variant.is_sorted => (pc = "start" /\ ~written /\ commits = 0)

\* C17 witness: a sorted 1-of-2 multisig with one local and one external
\* key is written
C17_Witness ==
    /\ state = "SetDescriptor"
    /\ pc = "ack"
    /\ written
    /\ req.variant = MultiSig(1, <<EKExternal, EKLocal>>, TRUE)

\* the last reply handed to the transport is UnexpectedMessage
LastReplyUnexpected(log) == Len(log) > 0 /\ log[Len(log)] = "UnexpectedMessage"

FlowStates == {"WaitingForPsbt", "SignPsbt"} \cup PageStates
Failures == {"Error", "FailedDeserialization", "BrokenProtocol", "Panic"}

FirstStates == {"DisplayAddress", "WaitingForPsbt", "PublicDescriptor", "GetXpub",
                "SetDescriptor", "UpdatingFw", "WipeDevice", "ShowMnemonic"}
\* the step starts a flow: a first state is entered, and not by a resumption
StartsFlow == state' \in FirstStates /\ state' # state /\ ~is_fast_boot'

\* C20: at most one flow and one checkpoint are active. A flow starts only
\* from Idle, where no checkpoint exists; SignPsbt and ConfirmSignPsbt
\* continue the flow begun at WaitingForPsbt; a checkpoint is committed
\* only when none exists, and it is the checkpoint of the flow in progress.
C20_OneFlowOneCheckpoint ==
    /\ [](state = "Idle" => ~ckpt.some)
    /\ []((ckpt.some /\ state \in PageStates) => ckpt.variant = state)
    /\ [](commits <= 1)
    /\ [][/\ StartsFlow => (state = "Idle" /\ ~ckpt.some /\ ~ckpt'.some)
          /\ (state' = "SignPsbt" /\ state # "SignPsbt") => state = "WaitingForPsbt"
          /\ (state' = "ConfirmSignPsbt" /\ state # "ConfirmSignPsbt" /\ ~is_fast_boot') =>
                state = "SignPsbt"
          /\ commits' # commits =>
                \/ (commits' = 0 /\ StartsFlow)
                \/ (commits' = 1 /\ ~ckpt.some /\ state \in PageStates \cup {"SignPsbt"})
          /\ (~ckpt.some /\ ckpt'.some) =>
                (state' \in PageStates /\ ckpt'.variant = state')]_vars

\* C20 witness: the xpub export in progress with its checkpoint, the only
\* one, committed once
C20_Witness ==
    /\ state = "GetXpub"
    /\ pc = "page"
    /\ ~is_fast_boot
    /\ commits = 1
    /\ ckpt.some
    /\ ckpt.variant = "GetXpub"

\* the sign flow's checkpoint record is in place, with its aux data
SignCheckpointed ==
    /\ ckpt.some
    /\ ckpt.variant = "ConfirmSignPsbt"
    /\ "aux_data" \in DOMAIN ckpt

\* the fee of a request: the sum of its inputs minus the sum of its outputs
FeeOf(w, psbt) ==
    total_input_value(psbt.inputs, 1, 0, allow_witness_utxo(w)).value
        - total_output_value(psbt.outputs, 1, 0).value

\* `list` holds exactly the outputs of `outs` outside `hidden`, in the order
\* of the PSBT, each with its own value
RecordsAllBut(list, outs, hidden) ==
    LET kept == { n \in 1..Len(outs) : n \notin hidden }
    IN  /\ Len(list) = Cardinality(kept)
        /\ \A j \in 1..Len(list) :
            /\ list[j].address \in kept
            /\ list[j].value = outs[list[j].address].value
            /\ \A k \in 1..Len(list) : j < k => list[j].address < list[k].address

FlowReplies ==
    IF state \in {"SignPsbt", "ConfirmSignPsbt"} /\ ~is_fast_boot
    THEN SubSeq(replies, 2, Len(replies))
    ELSE replies

\* C26: a run that is not resumed has sent DelayedReply, as the first reply
\* to its request and once, when it is at its pages; no confirmation loop of
\* a page of these flows is entered before it; DelayedReply is sent only by a handler at its
\* start in a run that is not resumed; a resumed run has sent none.
C26_DelayedReplyFirst ==
    /\ []((state \in PageStates /\ ~is_fast_boot /\ pc \in {"page", "ack", "done"}) =>
            /\ Len(FlowReplies) >= 1
            /\ FlowReplies[1] = "DelayedReply"
            /\ \A n \in 2..Len(FlowReplies) : FlowReplies[n] # "DelayedReply")
    /\ []((state \in PageStates \cup {"SignPsbt"} /\ is_fast_boot) =>
            ~Sent("DelayedReply"))
    /\ [][/\ (state \in PageStates /\ invoked' # invoked /\ invoked' # {}
                /\ ~is_fast_boot) =>
                (Sent("DelayedReply") /\ replies' = replies)
          /\ (Len(replies') > Len(replies) /\ replies'[Len(replies')] = "DelayedReply") =>
                /\ ~is_fast_boot
                /\ ~Sent("DelayedReply")
                /\ invoked = {}
                /\ state = "SignPsbt" \/ pc = "start"]_vars

\* C26 witness: the set-descriptor flow, not resumed, has its first page
\* accepted after DelayedReply, the only reply so far
C26_Witness ==
    /\ state = "SetDescriptor"
    /\ ~is_fast_boot
    /\ pc = "page"
    /\ 0 \in accepted
    /\ replies = <<"DelayedReply">>

\* the flow's one commit was tried and left no record: the write failed
CommitFailed == commits = 1 /\ ~ckpt.some /\ removes = 0

\* C27: a failed write of the checkpoint ends the flow. The step of the
\* failed commit leaves the handler with the error, sends no reply, enters
\* no confirmation loop and does not go to ConfirmSignPsbt; in the states
\* after it no page was shown and no result reply was sent, and the next
\* state is Idle, after the restart.
C27_CommitFailureIsFatal ==
    /\ [](CommitFailed =>
            /\ state \in {"Error", "Idle"}
            /\ invoked = {}
            /\ drawn = <<>>
            /\ \A r \in {"SignedPsbt", "Xpub", "Address", "Descriptor"} : ~Sent(r)
            /\ (state = "Error" /\ req.kind = "SetDescriptor") => ~Sent("Ok")
            /\ ~written)
    /\ [][/\ (commits' = commits + 1 /\ ~ckpt'.some) =>
                /\ state \in {"SignPsbt", "GetXpub", "SetDescriptor"}
                /\ state' = "Error"
                /\ pc' = "done"
                /\ invoked' = {}
                /\ replies' = IF state = "SignPsbt"
                              THEN Append(replies, "DelayedReply")
                              ELSE replies
          /\ (CommitFailed /\ state = "Error") => state' \in {"Error", "Idle"}]_vars

\* C27 witness: the set-descriptor flow's commit failed; the flow is over
\* with the error, no page shown and nothing replied
C27_Witness ==
    /\ CommitFailed
    /\ state = "Error"
    /\ req.kind = "SetDescriptor"
    /\ replies = <<>>
    /\ invoked = {}

\* C30: the sign-PSBT flow commits its checkpoint once, in the step that
\* enters ConfirmSignPsbt and before any page's confirmation loop; a run
\* resumed from that checkpoint works on the outputs, the fee and the
\* signature bytes of its aux data, which are those of the request the flow
\* began with, and shows only pages of that sequence from the cursor on.
C30_CommitOnceThenReplayFromAux ==
    /\ [](state = "SignPsbt" => (commits = 0 /\ invoked = {} /\ ~ckpt.some))
    /\ [](state = "ConfirmSignPsbt" =>
            /\ commits = 1
            /\ req.fees = FeeOf(wallet, req.psbt)
            /\ RecordsAllBut(req.outputs, req.psbt.outputs,
                             { n \in 1..Len(req.psbt.outputs) :
                                 VerifiesAs(wallet, "Internal", req.psbt.outputs[n]) })
            /\ is_fast_boot =>
                /\ SignCheckpointed
                /\ req.outputs = ckpt.aux_data.outputs
                /\ req.fees = ckpt.aux_data.fees
                /\ req.sig_bytes = ckpt.aux_data.sig_bytes
                /\ invoked \subseteq { p \in 0..Len(req.outputs) : p >= resumable })
    /\ [][/\ (state = "ConfirmSignPsbt" /\ invoked' # invoked /\ invoked' # {}) =>
                (commits = 1 /\ commits' = 1)
          /\ (state' = "ConfirmSignPsbt" /\ state = "SignPsbt") =>
                (commits' = 1 /\ SignCheckpointed' /\ invoked' = {})
          /\ (state \in {"SignPsbt", "ConfirmSignPsbt"} /\ commits' # commits) =>
                (state = "SignPsbt" /\ commits' = 1)]_vars

\* C30 witness: a sign flow with one change output and one foreign output
\* was interrupted after the output page; the resumed run has shown the fee
\* page, the one page left, and it was accepted
C30_Witness ==
    /\ state = "ConfirmSignPsbt"
    /\ is_fast_boot
    /\ resumable = 1
    /\ req.psbt.outputs = <<OutInternal, OutForeign>>
    /\ req.outputs = <<[address |-> 2, value |-> OutForeign.value]>>
    /\ req.fees > 0
    /\ invoked = {1}
    /\ acceptedRun = {1}
    /\ commits = 1

\* the step is the device's restart, which rebuilds the wallet from flash
RestartStep == replies' = <<>> /\ pos' = 0 /\ wallet' = config /\ pc' = "start"

\* C31: the wallet changes only where handle_set_descriptor_request returns
\* Idle after the configuration was written, and there it becomes the new
\* wallet, the one written to flash; every other exit of the handler (failed
\* checks, a rejected page, a failed commit or write) leaves the wallet the
\* handler was called with, and no step of a handler changes the wallet
\* while the flow runs.
C31_WalletReplacedOnlyOnSuccess ==
    [][/\ (wallet' # wallet /\ ~RestartStep) =>
            /\ state = "SetDescriptor"
            /\ pc = "ack"
            /\ written
            /\ state' = "Idle"
       /\ (state = "SetDescriptor" /\ state' = "Idle" /\ ~RestartStep) =>
            IF written
            THEN /\ wallet' = new_wallet(req.variant, req.script_type)
                 /\ wallet' = config
                 /\ Sent("Ok")
            ELSE /\ wallet' = wallet
                 /\ config' = config
       /\ (state = "SetDescriptor" /\ state' \in Failures) =>
            /\ wallet' = wallet
            /\ config' = config]_vars

\* C31 witness: the flow is over, the configuration was written and Idle
\* holds the new wallet, a multisig one, which is the one in flash
C31_Witness ==
    /\ state = "Idle"
    /\ written
    /\ Sent("Ok")
    /\ wallet = config
    /\ wallet # InitialWallet
    /\ wallet.multisig

\* C32: the end of handle_confirm_sign_psbt is in this order: the
\* SignedPsbt reply, the wait for the transport, checkpoint.remove, Idle.
\* Sending the reply leaves the checkpoint as it is; while the handler waits
\* with the reply sent the committed checkpoint exists and remove was not
\* called; remove is called only after the reply, in the step that ends in
\* Idle, and the handler reaches Idle only so.
C32_ReplyAckRemoveIdle ==
    /\ []((state = "ConfirmSignPsbt" /\ Sent("SignedPsbt")) =>
            /\ pc = "ack"
            /\ ckpt.some
            /\ ckpt.variant = "ConfirmSignPsbt"
            /\ removes = 0)
    /\ [][state = "ConfirmSignPsbt" =>
            /\ (Sent("SignedPsbt")' /\ ~Sent("SignedPsbt")) =>
                    /\ ckpt' = ckpt
                    /\ removes' = removes
                    /\ state' = "ConfirmSignPsbt"
            /\ removes' # removes =>
                    /\ Sent("SignedPsbt")
                    /\ pc = "ack"
                    /\ removes' = removes + 1
                    /\ ~ckpt'.some
                    /\ state' = "Idle"
            /\ (state' = "Idle" /\ ~RestartStep) =>
                    /\ Sent("SignedPsbt")
                    /\ pc = "ack"
                    /\ removes' = removes + 1
                    /\ ~ckpt'.some]_vars

\* C32 witness: the signed PSBT of a run that is not resumed was sent after
\* its pages and the handler waits for the transport, the checkpoint in place
C32_Witness ==
    /\ state = "ConfirmSignPsbt"
    /\ ~is_fast_boot
    /\ pc = "ack"
    /\ replies = <<"Ok", "DelayedReply", "SignedPsbt">>
    /\ ckpt.some
    /\ removes = 0

\* the configuration page after write_flash(CONFIG_PAGE, &[])
Erased == [wiped |-> TRUE]

C34_PageIndicesContiguous ==
    state \in {"ConfirmSignPsbt", "SetDescriptor"} =>
        /\ \A n \in 1..Len(FlowPages) : FlowPages[n] = n - 1
        /\ state = "ConfirmSignPsbt" =>
            /\ Len(FlowPages) = Len(req.outputs) + 1
            /\ FlowPages[Len(FlowPages)] = Len(req.outputs)
        /\ (state = "SetDescriptor" /\ req.variant.kind = "SingleSig") =>
            PageSet = 0..4
        /\ (state = "SetDescriptor" /\ req.variant.kind = "MultiSig") =>
            LET keys == Len(req.variant.keys)
            IN  /\ PageSet = 0..(4 + keys)
                /\ \A k \in 1..keys : FlowPages[3 + k] = 2 + k
                /\ FlowPages[Len(FlowPages)] = 4 + keys
        /\ invoked = { p \in 0..(Len(FlowPages) - 1) :
                         resumable <= p /\ p < resumable + Cardinality(invoked) }
        /\ acceptedRun # {} => pos = resumable + Cardinality(acceptedRun)
        /\ (pc = "ack" /\ resumable < Len(FlowPages)) =>
            invoked = resumable..(Len(FlowPages) - 1)

\* C34 witness: a multisig descriptor with two keys went through all its
\* pages in one run: the indices 0..6, the key pages at 3 and 4
C34_Witness ==
    /\ state = "SetDescriptor"
    /\ ~is_fast_boot
    /\ pc = "ack"
    /\ req.variant.kind = "MultiSig"
    /\ Len(req.variant.keys) = 2
    /\ invoked = 0..6
    /\ pos = 7

(***************************************************************************)
(* Properties of derive_from_psbt_output                                   *)
(***************************************************************************)
\* a key-origin map verifies against the descriptor: some key of the
\* descriptor has a claim with its fingerprint and path whose expected key
\* is the key re-derived at the claimed index
SourceVerifies(keys, key_origins) ==
    \E n \in 1..Len(keys) : ResolvedIndices(keys[n], key_origins) # {}

\* C28: derive_from_psbt_output accepts the output as ours when its legacy
\* BIP32 key paths verify or its taproot key origins verify, each taken by
\* itself, and answers "not ours" only when neither verifies.
C28_EitherSourceAccepts ==
    opc = "done" =>
        LET hd == SourceVerifies(odesc, CollectOrigins(ooutput.bip32_derivation, "FullKey"))
            tap == SourceVerifies(odesc, CollectOrigins(ooutput.tap_key_origins, "XOnly"))
        IN  /\ (hd \/ tap) => oresult.tag = "Some"
            /\ oresult = NotOurs => (~hd /\ ~tap)

====
